---- MODULE Spec2Model ----
(***************************************************************************)
(* Sandbox lifecycle of copilot-sandbox: sandboxUpCore, sandboxExecCore,   *)
(* sandboxDownCore, sandboxMergeCore and sandboxListCore (sandbox.ts) on   *)
(* top of the worktree helpers (worktree.ts) and the container helpers     *)
(* (container.ts).  The git repository and the container runtime are       *)
(* modelled by their command-level behaviour.                              *)
(*                                                                         *)
(* A history is the linear sequence of changes reachable from a commit;    *)
(* a change is <<author, file>>.  Commit x is an ancestor of commit y iff  *)
(* the history of x is a prefix of the history of y.                       *)
(***************************************************************************)
EXTENDS Integers, Sequences, FiniteSets, TLC

\* ---------------------------------------------------------------- bounds
MaxCommits == 2
MaxSessions == 1
MaxLog == 2
MaxClock == 1
MaxIssues == 2
MaxLinks == 2

\* ------------------------------------------------------------- universes
Main == "main"
Branches == {"b1", "b2", "b3"}
DuoBranches == {"b1", "b2"}
Detached == "(detached)"
Files == {"f", "g"}
RootPath == <<"/repo">>
NoTask == "no-task"
NoSession == "no-session"
NoEdit == "no-edit"
Tasks == {"t"}
SessionIds == {"s1"}
GeneratedId == "uuid"

\* The branch whose name is the directory name of the worktree of b1.  The
\* names of Branches are written without their prefix: b1 is sandbox/b1.
Twin == "sandbox-b1"

\* Every branch name a sandbox is created under.
Names == Branches \cup {Twin}

\* branchName.replace(/\//g, "-"): the directory of the worktree of a branch.
DirName(branchName) ==
  IF branchName \in Branches THEN "sandbox-" \o branchName ELSE branchName

WorktreePath(branchName) == <<"/repo-worktrees", DirName(branchName)>>

\* A worktree: whether it is registered, the state of a rebase in it ("none",
\* "conflict": stopped with unmerged paths, "staged": stopped, nothing
\* unmerged), and resolved: a conflicted rebase was completed in it (history).
NoWorktree ==
  [live |-> FALSE, rebase |-> "none", onto |-> <<>>, unmerged |-> {},
   detachedHead |-> <<>>, resolved |-> FALSE]

FreshWorktree ==
  [live |-> TRUE, rebase |-> "none", onto |-> <<>>, unmerged |-> {},
   detachedHead |-> <<>>, resolved |-> FALSE]

\* branches  : local branches other than Main that exist
\* head      : history of each branch ref (<<>> for a branch that does not exist)
\* wt        : linked worktree registered at WorktreePath(k), per k in Names
\* container : worktrees (by k) whose dev container exists
\* sessions  : .copilot-sandbox.json of each worktree: its session entries
\* current   : the branch checked out in the main working tree
\* last      : the last call of a core function: its inputs, steps and result
\* issues    : .orchestrator/issues.json: the issue records, in key order
\* tasks     : .orchestrator/tasks.json: the task records, in key order
\* clock     : the wall clock, in milliseconds
VARIABLES branches, head, wt, container, sessions, current, last,
          issues, tasks, clock, orchestrations, unparsable, inflight

vars == <<branches, head, wt, container, sessions, current, last,
          issues, tasks, clock, orchestrations, unparsable, inflight>>

ledgerVars == <<issues, tasks, clock, orchestrations, unparsable, inflight>>

\* ------------------------------------------------------ sequence helpers
Range(s) == {s[i] : i \in 1..Len(s)}

IsPrefix(s, t) == Len(s) <= Len(t) /\ SubSeq(t, 1, Len(s)) = s

RECURSIVE CommonPrefixLen(_, _)
CommonPrefixLen(s, t) ==
  IF s = <<>> \/ t = <<>> \/ Head(s) # Head(t) THEN 0
  ELSE 1 + CommonPrefixLen(Tail(s), Tail(t))

Suffix(s, n) == SubSeq(s, n + 1, Len(s))

FilesOf(s) == {s[i][2] : i \in 1..Len(s)}

TotalCommits ==
  LET RECURSIVE Sum(_)
      Sum(S) == IF S = {} THEN 0
                ELSE LET k == CHOOSE x \in S : TRUE
                     IN (Len(head[k]) - CommonPrefixLen(head[k], head[Main]))
                        + Sum(S \ {k})
  IN Len(head[Main]) + Sum(Names)

\* The repository, the containers and the worktree files as one value, so that
\* the steps of a handler compose.
World ==
  [branches |-> branches, head |-> head, wt |-> wt, container |-> container,
   sessions |-> sessions, current |-> current]

\* ------------------------------------------------------ git: worktree list
\* `git worktree list --porcelain`: the main worktree first, then the linked
\* worktrees; a worktree whose HEAD is detached (as it is while a rebase is
\* stopped in it) prints "detached" instead of its branch.
RECURSIVE PorcelainLinked(_, _)
PorcelainLinked(W, order) ==
  LET k == Head(order)
      entry ==
        IF ~W.wt[k].live THEN <<>>
        ELSE IF W.wt[k].rebase # "none"
             THEN << <<"worktree", WorktreePath(k)>>, <<"HEAD", W.wt[k].detachedHead>>,
                     <<"detached">>, <<"">> >>
             ELSE << <<"worktree", WorktreePath(k)>>, <<"HEAD", W.head[k]>>,
                     <<"branch", k>>, <<"">> >>
  IN IF order = <<>> THEN <<>> ELSE entry \o PorcelainLinked(W, Tail(order))

UndefinedPath == <<>>

EmptyCurrent ==
  [path |-> UndefinedPath, head |-> << <<"undefined">> >>, branch |-> "undefined",
   isBare |-> FALSE]

\* The loop of listWorktrees over the lines of the output.
RECURSIVE ParseLines(_, _)
ParseLines(st, lines) ==
  LET line == Head(lines)
      next ==
        IF line[1] = "worktree"
          THEN [worktrees |-> IF st.current.path # UndefinedPath
                              THEN Append(st.worktrees, st.current) ELSE st.worktrees,
                current |-> [EmptyCurrent EXCEPT !.path = line[2]]]
        ELSE IF line[1] = "HEAD"
          THEN [st EXCEPT !.current.head = line[2]]
        ELSE IF line[1] = "branch"
          THEN [st EXCEPT !.current.branch = line[2]]
        ELSE IF line[1] = "bare"
          THEN [st EXCEPT !.current.isBare = TRUE]
        ELSE IF line[1] = "detached"
          THEN [st EXCEPT !.current.branch = Detached]
        ELSE st
  IN IF lines = <<>> THEN st ELSE ParseLines(next, Tail(lines))

listWorktrees(W) ==
  LET output ==
        << <<"worktree", RootPath>>, <<"HEAD", W.head[W.current]>>,
           <<"branch", W.current>>, <<"">> >>
          \o PorcelainLinked(W, <<"b1", "b2", "b3", Twin>>)
      st == ParseLines([worktrees |-> <<>>, current |-> EmptyCurrent], output)
  IN IF st.current.path # UndefinedPath
     THEN Append(st.worktrees, st.current) ELSE st.worktrees

\* worktrees.find((wt) => wt.branch === options.branch): index of the first
\* match, 0 when there is none.
RECURSIVE FindFrom(_, _, _)
FindFrom(ws, branch, i) ==
  IF i > Len(ws) THEN 0
  ELSE IF ws[i].branch = branch THEN i
  ELSE FindFrom(ws, branch, i + 1)

\* A lookup that settles for the first linked worktree when no branch matches.
findTarget_AnyLinked(ws, branch) ==
  IF FindFrom(ws, branch, 1) # 0 THEN FindFrom(ws, branch, 1)
  ELSE IF Len(ws) >= 2 THEN 2 ELSE 0

findTarget(ws, branch) == FindFrom(ws, branch, 1)

\* The key of the worktree registered at a path (paths are WorktreePath(k)):
\* the branch it was created for.
KeyOfPath(W, path) ==
  IF W.wt[Twin].live /\ path = WorktreePath(Twin) THEN Twin
  ELSE CHOOSE k \in Branches : WorktreePath(k) = path

\* --------------------------------------------------------- git: commands
\* Each command returns [ok, W]: whether git exited 0 and the world after it.

\* git worktree add -B: the branch is reset when it exists already and the
\* worktree directory is taken over.
createWorktree_ForceBranch(W, k) ==
  [ok |-> TRUE,
   W |-> [W EXCEPT !.branches = @ \cup {k},
                   !.head[k] = W.head[W.current],
                   !.wt[k] = FreshWorktree,
                   !.sessions[k] = <<>>]]

\* git worktree add -b <branchName> <path> <base>; base is HEAD of the main
\* repository.  Fails when the branch or the path already exists; git creates
\* the branch before it looks at the path, so a path that is taken (by the
\* worktree of a branch with the same directory name) leaves the new branch
\* behind.
createWorktree(W, k) ==
  IF k \in W.branches \/ W.wt[k].live
  THEN [ok |-> FALSE, W |-> W]
  ELSE IF \E j \in Names \ {k} : W.wt[j].live /\ WorktreePath(j) = WorktreePath(k)
  THEN [ok |-> FALSE,
        W |-> [W EXCEPT !.branches = @ \cup {k}, !.head[k] = W.head[W.current]]]
  ELSE [ok |-> TRUE,
        W |-> [W EXCEPT !.branches = @ \cup {k},
                        !.head[k] = W.head[W.current],
                        !.wt[k] = FreshWorktree,
                        !.sessions[k] = <<>>]]

\* git worktree remove --force <path>.  Fails when nothing is registered at
\* the path, or when the directory cannot be deleted (fault).
removeWorktree(W, k, fault) ==
  IF fault \/ ~W.wt[k].live
  THEN [ok |-> FALSE, W |-> W]
  ELSE [ok |-> TRUE,
        W |-> [W EXCEPT !.wt[k] = NoWorktree, !.sessions[k] = <<>>]]

\* git branch -D <name>.  Fails when the branch does not exist or is checked
\* out (or being rebased) in a worktree, the main working tree included.
deleteBranch(W, name) ==
  IF name \notin W.branches \/ W.wt[name].live \/ name = W.current
  THEN [ok |-> FALSE, W |-> W]
  ELSE [ok |-> TRUE,
        W |-> [W EXCEPT !.branches = @ \ {name}, !.head[name] = <<>>]]

\* The name of the default branch, whatever is checked out.
getCurrentBranch_AlwaysMain(W) == Main

\* git rev-parse --abbrev-ref HEAD in the main working tree.
getCurrentBranch(W) == W.current

\* git merge --ff-only <name> in the main working tree.
\* A merge without --ff-only that moves the current branch to the named one.
fastForwardMerge_Resets(W, name) ==
  IF name \notin W.branches
  THEN [ok |-> FALSE, W |-> W]
  ELSE [ok |-> TRUE, W |-> [W EXCEPT !.head[W.current] = W.head[name]]]

fastForwardMerge(W, name) ==
  IF name \notin W.branches \/ ~IsPrefix(W.head[W.current], W.head[name])
  THEN [ok |-> FALSE, W |-> W]
  ELSE [ok |-> TRUE, W |-> [W EXCEPT !.head[W.current] = W.head[name]]]

\* ------------------------------------------------------ container runtime
\* devcontainer up: fault is "ok", "throw" (the CLI exits non-zero or prints no
\* outcome line) or "error" (it reports an outcome other than success).
containerUp_NoStart(W, k, fault) ==
  IF fault = "ok"
  THEN [outcome |-> "success", W |-> W]
  ELSE [outcome |-> fault, W |-> W]

containerUp(W, k, fault) ==
  IF fault = "ok"
  THEN [outcome |-> "success", W |-> [W EXCEPT !.container = @ \cup {k}]]
  ELSE [outcome |-> fault, W |-> W]

\* docker rm -f of the container labelled with the worktree path, if any.
containerDown(W, k, fault) ==
  IF k \notin W.container THEN [ok |-> TRUE, W |-> W]
  ELSE IF fault THEN [ok |-> FALSE, W |-> W]
  ELSE [ok |-> TRUE, W |-> [W EXCEPT !.container = @ \ {k}]]

\* devcontainer exec copilot -p <task>: the agent may commit one change to a
\* file of the worktree (edit), unless a rebase is stopped in it.
containerExec(W, k, edit, fault) ==
  IF fault THEN [ok |-> FALSE, W |-> W]
  ELSE IF edit = NoEdit \/ W.wt[k].rebase # "none" THEN [ok |-> TRUE, W |-> W]
  ELSE [ok |-> TRUE, W |-> [W EXCEPT !.head[k] = Append(@, <<k, edit>>)]]

\* ------------------------------------------------------- session metadata
\* The sessions of the .copilot-sandbox.json under a path; none when the file
\* cannot be read (the root of the repository has no such file).
readSandboxMetadata(W, path) ==
  IF path = RootPath THEN <<>> ELSE W.sessions[KeyOfPath(W, path)]

\* addSessionEntry that writes a metadata file holding only the new entry.
addSessionEntry_Overwrites(W, path, entry) ==
  [W EXCEPT !.sessions[KeyOfPath(W, path)] = <<entry>>]

addSessionEntry(W, path, entry) ==
  [W EXCEPT !.sessions[KeyOfPath(W, path)] = Append(readSandboxMetadata(W, path), entry)]

\* ------------------------------------------------------------ git: rebase
\* The changes of branch k that are not on the branch of the main working
\* tree, and the changes of that branch that are not on k.
OwnChanges(W, k) ==
  Suffix(W.head[k], CommonPrefixLen(W.head[k], W.head[W.current]))

TheirChanges(W, k) ==
  Suffix(W.head[W.current], CommonPrefixLen(W.head[k], W.head[W.current]))

\* Index of the first own change that touches a file the main branch changed
\* too (0 when there is none): where the rebase stops with a conflict.
RECURSIVE FirstOverlap(_, _, _)
FirstOverlap(own, theirFiles, i) ==
  IF i > Len(own) THEN 0
  ELSE IF own[i][2] \in theirFiles THEN i
  ELSE FirstOverlap(own, theirFiles, i + 1)

\* git rebase <ontoBranch> in worktree k.  outcome "ok": the branch now is the
\* main history followed by its own changes.  outcome "stopped": a conflict;
\* HEAD is detached, the branch ref is not moved, the conflicted paths are
\* unmerged.  outcome "fail": a rebase is already in progress there, or git
\* refused to start (fault, for instance unstaged changes); nothing changes.
GitRebase(W, k, fault) ==
  LET own == OwnChanges(W, k)
      ontoBranch == getCurrentBranch(W)
      stop == FirstOverlap(own, FilesOf(TheirChanges(W, k)), 1)
  IN IF W.wt[k].rebase # "none" \/ fault
       THEN [outcome |-> "fail", W |-> W]
     ELSE IF stop = 0
       THEN [outcome |-> "ok", W |-> [W EXCEPT !.head[k] = W.head[ontoBranch] \o own]]
     ELSE [outcome |-> "stopped",
           W |-> [W EXCEPT !.wt[k] =
                    [live |-> TRUE, rebase |-> "conflict", onto |-> W.head[ontoBranch],
                     unmerged |-> {own[stop][2]},
                     detachedHead |-> W.head[ontoBranch] \o SubSeq(own, 1, stop - 1),
                     resolved |-> W.wt[k].resolved]]]

\* rebaseWorktree without the files.length > 0 test: every failed rebase is
\* reported as a conflict.
rebaseWorktree_NoLengthCheck(W, k, fault) ==
  LET r == GitRebase(W, k, fault)
      files == r.W.wt[k].unmerged
  IN IF r.outcome = "ok"
       THEN [success |-> TRUE, conflictFiles |-> {}, threw |-> FALSE, W |-> r.W]
     ELSE [success |-> FALSE, conflictFiles |-> files, threw |-> FALSE, W |-> r.W]

\* rebaseWorktree(worktreePath, ontoBranch): [success, conflictFiles, threw, W].
\* files: git diff --name-only --diff-filter=U, split into its non-empty
\* lines.  aborted: git rebase --abort, back to the branch as it was before
\* the rebase (nothing to abort when none is in progress).
\* rebaseWorktree that treats every failure of git rebase alike: abort, throw.
rebaseWorktree_AlwaysAborts(W, k, fault) ==
  LET r == GitRebase(W, k, fault)
      aborted ==
        IF r.W.wt[k].rebase = "none" THEN r.W
        ELSE [r.W EXCEPT !.wt[k] = [FreshWorktree EXCEPT !.resolved = r.W.wt[k].resolved]]
  IN IF r.outcome = "ok"
       THEN [success |-> TRUE, conflictFiles |-> {}, threw |-> FALSE, W |-> r.W]
     ELSE [success |-> FALSE, conflictFiles |-> {}, threw |-> TRUE,
           W |-> aborted]

rebaseWorktree(W, k, fault) ==
  LET r == GitRebase(W, k, fault)
      files == r.W.wt[k].unmerged
      aborted ==
        IF r.W.wt[k].rebase = "none" THEN r.W
        ELSE [r.W EXCEPT !.wt[k] = [FreshWorktree EXCEPT !.resolved = r.W.wt[k].resolved]]
  IN IF r.outcome = "ok"
       THEN [success |-> TRUE, conflictFiles |-> {}, threw |-> FALSE, W |-> r.W]
     ELSE IF files # {}
       THEN [success |-> FALSE, conflictFiles |-> files, threw |-> FALSE, W |-> r.W]
     ELSE [success |-> FALSE, conflictFiles |-> {}, threw |-> TRUE,
           W |-> aborted]

\* ------------------------------------------------------------ call records
NoCall ==
  [op |-> "none", branch |-> "none", result |-> "none", error |-> "none",
   conflictFiles |-> {}, steps |-> <<>>, sessionId |-> NoSession,
   containerOnly |-> FALSE, list |-> <<>>, faults |-> {}, pre |-> NoWorktree,
   arg |-> <<>>, out |-> <<>>, progress |-> "none", running |-> FALSE]

\* The worktree a call is about, as it was when the call was made: the one
\* checked out on the named branch, or else the one the call finds.
CallOf(W, op, branch, F) ==
  LET ws == listWorktrees(W)
      i == findTarget(ws, branch)
      pre == IF branch \in Names THEN W.wt[branch]
             ELSE IF i = 0 THEN NoWorktree
             ELSE W.wt[KeyOfPath(W, ws[i].path)]
  IN [NoCall EXCEPT !.op = op, !.branch = branch, !.faults = F, !.pre = pre,
                    !.running = branch \in W.container]

ErrNotFound == "No worktree found for branch"
ErrContainerUpThrew == "devcontainer up failed"
ErrContainerOutcome == "Container failed to start"
ErrExec == "Failed to exec in container"
ErrRebase == "Rebase of worktree failed"
ErrWorktreeAdd == "git worktree add failed"
ErrWorktreeRemove == "git worktree remove failed"
ErrFastForward == "git merge --ff-only failed"

\* The collaborator failures drawn for a call are a set of names F.
UpOutcomeOf(F) ==
  IF "containerUp.throw" \in F THEN "throw"
  ELSE IF "containerUp.error" \in F THEN "error"
  ELSE "ok"

EnvStartError(outcome) ==
  IF outcome = "throw" THEN ErrContainerUpThrew ELSE ErrContainerOutcome

Returned(W, call, steps) == [W |-> W, last |-> [call EXCEPT !.result = "ok", !.steps = steps]]

Threw(W, call, steps, err) ==
  [W |-> W, last |-> [call EXCEPT !.result = "error", !.error = err, !.steps = steps]]

\* ---------------------------------------------------------- sandboxUpCore
\* The rollback without the deleteBranch call.
UpRollback_KeepsBranch(W, call, steps, k, outcome, F) ==
  LET rm == removeWorktree(W, k, "removeWorktree" \in F)
      steps1 == Append(steps, <<"removeWorktree", rm.ok>>)
  IN IF ~rm.ok THEN Threw(rm.W, call, steps1, ErrWorktreeRemove)
     ELSE Threw(rm.W, call, steps1, EnvStartError(outcome))

\* The catch block / outcome check of sandboxUpCore: remove the worktree,
\* delete the branch, raise the environment-start error.
UpRollback(W, call, steps, k, outcome, F) ==
  LET rm == removeWorktree(W, k, "removeWorktree" \in F)
      db == deleteBranch(rm.W, k)
      steps1 == Append(steps, <<"removeWorktree", rm.ok>>)
      steps2 == Append(steps1, <<"deleteBranch", db.ok>>)
  IN IF ~rm.ok THEN Threw(rm.W, call, steps1, ErrWorktreeRemove)
     ELSE IF ~db.ok THEN Threw(db.W, call, steps2, "git branch -D failed")
     ELSE Threw(db.W, call, steps2, EnvStartError(outcome))

sandboxUpCoreOn(W, k, task, sid, edit, F) ==
  LET call == CallOf(W, "up", k, F)
      cw == createWorktree(W, k)
      steps1 == << <<"createWorktree", cw.ok>> >>
      cfgOk == "ensureCopilotFeature" \notin F
      steps2 == Append(steps1, <<"ensureCopilotFeature", cfgOk>>)
      up == containerUp(cw.W, k, UpOutcomeOf(F))
      steps3 == Append(steps2, <<"containerUp", up.outcome = "success">>)
      sessionId == IF sid = NoSession THEN GeneratedId ELSE sid
      ex == containerExec(up.W, k, edit, "containerExec" \in F)
      steps4 == Append(steps3, <<"containerExec", ex.ok>>)
  IN IF ~cw.ok THEN Threw(cw.W, call, steps1, ErrWorktreeAdd)
     ELSE IF ~cfgOk THEN Threw(cw.W, call, steps2, "devcontainer.json cannot be parsed")
     ELSE IF up.outcome # "success"
       THEN UpRollback(up.W, call, steps3, k, up.outcome, F)
     ELSE IF task = NoTask THEN Returned(up.W, call, steps3)
     ELSE IF ~ex.ok THEN Threw(ex.W, call, steps4, ErrExec)
     ELSE Returned(addSessionEntry(ex.W, WorktreePath(k),
                                   [sessionId |-> sessionId, task |-> task]),
                   [call EXCEPT !.sessionId = sessionId],
                   Append(steps4, <<"addSessionEntry", TRUE>>))

\* -------------------------------------------------------- sandboxExecCore
\* sandboxExecCore with the rollback of sandboxUpCore on a failed start.
sandboxExecCoreOn_RollsBack(W, branch, task, sid, edit, F) ==
  LET call == CallOf(W, "exec", branch, F)
      ws == listWorktrees(W)
      i == findTarget(ws, branch)
      k == KeyOfPath(W, ws[i].path)
      steps1 == << <<"listWorktrees", TRUE>> >>
      up == containerUp(W, k, UpOutcomeOf(F))
      steps2 == Append(steps1, <<"containerUp", up.outcome = "success">>)
      sessionId == IF sid = NoSession THEN GeneratedId ELSE sid
      ex == containerExec(up.W, k, edit, "containerExec" \in F)
      steps3 == Append(steps2, <<"containerExec", ex.ok>>)
      callS == [call EXCEPT !.sessionId = sessionId]
  IN IF i = 0 THEN Threw(W, call, steps1, ErrNotFound)
     ELSE IF up.outcome # "success"
       THEN UpRollback(up.W, call, steps2, k, up.outcome, F)
     ELSE IF ~ex.ok THEN Threw(ex.W, call, steps3, ErrExec)
     ELSE IF sid = NoSession
       THEN Returned(addSessionEntry(ex.W, ws[i].path,
                                     [sessionId |-> sessionId, task |-> task]),
                     callS, Append(steps3, <<"addSessionEntry", TRUE>>))
     ELSE Returned(ex.W, callS, steps3)

sandboxExecCoreOn(W, branch, task, sid, edit, F) ==
  LET call == CallOf(W, "exec", branch, F)
      ws == listWorktrees(W)
      i == findTarget(ws, branch)
      k == KeyOfPath(W, ws[i].path)
      steps1 == << <<"listWorktrees", TRUE>> >>
      up == containerUp(W, k, UpOutcomeOf(F))
      steps2 == Append(steps1, <<"containerUp", up.outcome = "success">>)
      sessionId == IF sid = NoSession THEN GeneratedId ELSE sid
      ex == containerExec(up.W, k, edit, "containerExec" \in F)
      steps3 == Append(steps2, <<"containerExec", ex.ok>>)
      callS == [call EXCEPT !.sessionId = sessionId]
  IN IF i = 0 THEN Threw(W, call, steps1, ErrNotFound)
     ELSE IF up.outcome # "success"
       THEN Threw(up.W, call, steps2, EnvStartError(up.outcome))
     ELSE IF ~ex.ok THEN Threw(ex.W, call, steps3, ErrExec)
     ELSE IF sid = NoSession
       THEN Returned(addSessionEntry(ex.W, ws[i].path,
                                     [sessionId |-> sessionId, task |-> task]),
                     callS, Append(steps3, <<"addSessionEntry", TRUE>>))
     ELSE Returned(ex.W, callS, steps3)

\* -------------------------------------------------------- sandboxDownCore
sandboxDownCoreOn(W, branch, containerOnly, F) ==
  LET call == [CallOf(W, "down", branch, F) EXCEPT !.containerOnly = containerOnly]
      ws == listWorktrees(W)
      i == findTarget(ws, branch)
      k == KeyOfPath(W, ws[i].path)
      steps1 == << <<"listWorktrees", TRUE>> >>
      cd == containerDown(W, k, "containerDown" \in F)
      steps2 == Append(steps1, <<"containerDown", cd.ok>>)
      rm == removeWorktree(cd.W, k, "removeWorktree" \in F)
      steps3 == Append(steps2, <<"removeWorktree", rm.ok>>)
      db == deleteBranch(rm.W, branch)
      steps4 == Append(steps3, <<"deleteBranch", db.ok>>)
  IN IF i = 0 THEN Threw(W, call, steps1, ErrNotFound)
     ELSE IF containerOnly THEN Returned(cd.W, call, steps2)
     ELSE IF ~rm.ok THEN Threw(rm.W, call, steps3, ErrWorktreeRemove)
     ELSE Returned(db.W, call, steps4)

\* ------------------------------------------------------- sandboxMergeCore
\* The teardown without the deleteBranch call.
MergeTeardown_KeepsBranch(W, call, steps, k, branch, F) ==
  LET cd == containerDown(W, k, "containerDown" \in F)
      steps1 == Append(steps, <<"containerDown", cd.ok>>)
      rm == removeWorktree(cd.W, k, "removeWorktree" \in F)
      steps2 == Append(steps1, <<"removeWorktree", rm.ok>>)
  IN IF ~rm.ok THEN Threw(rm.W, call, steps2, ErrWorktreeRemove)
     ELSE Returned(rm.W, call, steps2)

\* After the fast-forward: stop the container (errors caught), remove the
\* worktree (errors propagate), delete the branch (errors caught).
MergeTeardown(W, call, steps, k, branch, F) ==
  LET cd == containerDown(W, k, "containerDown" \in F)
      steps1 == Append(steps, <<"containerDown", cd.ok>>)
      rm == removeWorktree(cd.W, k, "removeWorktree" \in F)
      steps2 == Append(steps1, <<"removeWorktree", rm.ok>>)
      db == deleteBranch(rm.W, branch)
      steps3 == Append(steps2, <<"deleteBranch", db.ok>>)
  IN IF ~rm.ok THEN Threw(rm.W, call, steps2, ErrWorktreeRemove)
     ELSE Returned(db.W, call, steps3)

\* sandboxMergeCore as it was before issue 001 was resolved: on a conflict the
\* container is stopped and the worktree removed before the result is returned.
MergeAfterRebase_CleansUpOnConflict(call, steps, k, branch, rb, F) ==
  LET ff == fastForwardMerge(rb.W, branch)
      steps1 == Append(steps, <<"fastForwardMerge", ff.ok>>)
      cd == containerDown(rb.W, k, FALSE)
      rm == removeWorktree(cd.W, k, FALSE)
  IN IF rb.threw THEN Threw(rb.W, call, steps, ErrRebase)
     ELSE IF ~rb.success
       THEN [W |-> rm.W,
             last |-> [call EXCEPT !.result = "conflict",
                                   !.conflictFiles = rb.conflictFiles,
                                   !.steps = steps]]
     ELSE IF ~ff.ok THEN Threw(ff.W, call, steps1, ErrFastForward)
     ELSE MergeTeardown(ff.W, call, steps1, k, branch, F)

\* sandboxMergeCore with the fast-forward attempted before the result of the
\* rebase is looked at.
MergeAfterRebase_FastForwardFirst(call, steps, k, branch, rb, F) ==
  LET ff == fastForwardMerge(rb.W, branch)
      steps1 == Append(steps, <<"fastForwardMerge", ff.ok>>)
  IN IF rb.threw THEN Threw(ff.W, call, steps1, ErrRebase)
     ELSE IF ~rb.success
       THEN [W |-> ff.W,
             last |-> [call EXCEPT !.result = "conflict",
                                   !.conflictFiles = rb.conflictFiles,
                                   !.steps = steps1]]
     ELSE IF ~ff.ok THEN Threw(ff.W, call, steps1, ErrFastForward)
     ELSE MergeTeardown(ff.W, call, steps1, k, branch, F)

\* sandboxMergeCore without the fastForwardMerge call.
MergeAfterRebase_NoFastForward(call, steps, k, branch, rb, F) ==
  IF rb.threw THEN Threw(rb.W, call, steps, ErrRebase)
  ELSE IF ~rb.success
    THEN [W |-> rb.W,
          last |-> [call EXCEPT !.result = "conflict",
                                !.conflictFiles = rb.conflictFiles,
                                !.steps = steps]]
  ELSE MergeTeardown(rb.W, call, steps, k, branch, F)

\* What sandboxMergeCore does with the result of rebaseWorktree.
MergeAfterRebase(call, steps, k, branch, rb, F) ==
  LET ff == fastForwardMerge(rb.W, branch)
      steps1 == Append(steps, <<"fastForwardMerge", ff.ok>>)
  IN IF rb.threw THEN Threw(rb.W, call, steps, ErrRebase)
     ELSE IF ~rb.success
       THEN [W |-> rb.W,
             last |-> [call EXCEPT !.result = "conflict",
                                   !.conflictFiles = rb.conflictFiles,
                                   !.steps = steps]]
     ELSE IF ~ff.ok THEN Threw(ff.W, call, steps1, ErrFastForward)
     ELSE MergeTeardown(ff.W, call, steps1, k, branch, F)

sandboxMergeCoreOn(W, branch, F) ==
  LET call == CallOf(W, "merge", branch, F)
      ws == listWorktrees(W)
      i == findTarget(ws, branch)
      k == KeyOfPath(W, ws[i].path)
      steps1 == << <<"listWorktrees", TRUE>> >>
      rb == rebaseWorktree(W, k, "rebase" \in F)
      steps2 == Append(steps1, <<"rebaseWorktree", rb.success>>)
  IN IF i = 0 THEN Threw(W, call, steps1, ErrNotFound)
     ELSE MergeAfterRebase(call, steps2, k, branch, rb, F)

\* ------------------------------------------------------ sandboxCleanupCore
\* git branch --list --format=%(refname:short), split into its non-empty
\* lines: every local branch, in the order git prints them.
\* A listing that returns the checked-out branch only.
listLocalBranches_CurrentOnly(W) == << W.current >>

listLocalBranches(W) ==
  SelectSeq(<<"b1", "b2", "b3", Twin, Main>>,
            LAMBDA b : b = Main \/ b \in W.branches)

\* Delete the branches of a list one after the other; a branch git refuses to
\* delete is left out of the deleted list.
RECURSIVE DeleteBranches(_, _, _)
DeleteBranches(W, names, deleted) ==
  IF names = <<>> THEN [W |-> W, deleted |-> deleted]
  ELSE LET db == deleteBranch(W, Head(names))
       IN DeleteBranches(db.W, Tail(names),
                         IF db.ok THEN Append(deleted, Head(names)) ELSE deleted)

\* sandboxCleanupCore({dir, dryRun}): {orphanedBranches, deletedBranches}.
\* A branch is orphaned when its name follows the sandbox naming convention
\* (the sandbox/ prefix: the names of Branches follow it, Main does not), no
\* live worktree is associated with it and it is not the current branch.
sandboxCleanupCoreOn(W, dryRun) ==
  LET call == [NoCall EXCEPT !.op = "cleanup", !.arg = dryRun, !.result = "ok"]
      IsOrphanedBranch(name) ==
        /\ name \in Branches
        /\ ~W.wt[name].live
        /\ name # getCurrentBranch(W)
      orphanedBranches ==
        SelectSeq(listLocalBranches(W), LAMBDA b : IsOrphanedBranch(b))
      del == DeleteBranches(W, orphanedBranches, <<>>)
  IN IF dryRun
     THEN [W |-> W,
           last |-> [call EXCEPT !.out = [orphanedBranches |-> orphanedBranches,
                                          deletedBranches |-> <<>>]]]
     ELSE [W |-> del.W,
           last |-> [call EXCEPT !.out = [orphanedBranches |-> orphanedBranches,
                                          deletedBranches |-> del.deleted]]]

\* -------------------------------------------------------- sandboxListCore
\* The filter without the comparison with the git root.
IsSandboxEntry_NoRootCheck(w) == ~w.isBare

\* RootPath is what getGitRoot returns.
IsSandboxEntry(w) == ~w.isBare /\ w.path # RootPath

RECURSIVE ListSandboxes(_, _)
ListSandboxes(W, ws) ==
  IF ws = <<>> THEN <<>>
  ELSE LET w == Head(ws)
       IN (IF IsSandboxEntry(w)
           THEN << [branch |-> w.branch, worktreePath |-> w.path, head |-> w.head,
                    sessions |-> readSandboxMetadata(W, w.path)] >>
           ELSE <<>>) \o ListSandboxes(W, Tail(ws))

sandboxListCoreOn(W) == ListSandboxes(W, listWorktrees(W))

\* ------------------------------------------------------------ the stores
\* An optional argument or field: None when it is undefined, Some(v) otherwise.
None == <<>>

Some(v) == <<v>>

ValueOf(o) == o[1]

\* A store document is a JavaScript object from id to record; Object.values
\* and JSON.stringify enumerate it with the integer-like keys first, in
\* ascending numeric order, then the other keys in insertion order.  A store
\* is held as the sequence of its records in that order.
RECURSIVE IndexOfKey(_, _, _)
IndexOfKey(store, id, i) ==
  IF i > Len(store) THEN 0
  ELSE IF store[i].id = id THEN i
  ELSE IndexOfKey(store, id, i + 1)

HasKey(store, id) == IndexOfKey(store, id, 1) # 0

GetKey(store, id) == store[IndexOfKey(store, id, 1)]

KeysOf(store) == {store[i].id : i \in 1..Len(store)}

\* Where a new key goes in the enumeration order; "1" and "2" are the
\* integer-like keys.
RECURSIVE InsertAt(_, _, _)
InsertAt(store, id, i) ==
  LET IntegerKeys == {"1", "2"}
      KeyNumber(key) == IF key = "1" THEN 1 ELSE 2
  IN IF i > Len(store) THEN i
     ELSE IF id \notin IntegerKeys THEN InsertAt(store, id, i + 1)
     ELSE IF store[i].id \notin IntegerKeys THEN i
     ELSE IF KeyNumber(store[i].id) > KeyNumber(id) THEN i
     ELSE InsertAt(store, id, i + 1)

\* data[id] = rec
SetKey(store, id, rec) ==
  IF HasKey(store, id)
  THEN [store EXCEPT ![IndexOfKey(store, id, 1)] = rec]
  ELSE LET i == InsertAt(store, id, 1)
       IN SubSeq(store, 1, i - 1) \o <<rec>> \o SubSeq(store, i, Len(store))

\* randomUUID(): an id that is not a key yet (never integer-like); "none"
\* when the ids of the model are used up.
randomUUID(store) ==
  IF ~HasKey(store, "u1") THEN "u1"
  ELSE IF ~HasKey(store, "u2") THEN "u2"
  ELSE "none"

\* -------------------------------------------------------------- IssueStore
NoUpdates ==
  [status |-> None, priority |-> None, labels |-> None,
   linkedCommits |-> None, linkedTasks |-> None]

NoFilter == [status |-> None, priority |-> None, label |-> None]

\* createIssue(opts): [store, issue].  createdAt is the clock reading; its
\* ISO-8601 rendering has a fixed width, so that comparing two renderings
\* compares the readings.  createdSeq is history, not stored by the program:
\* the rank of the record's creation among the creations of the records in
\* the store.
createIssue(store, opts, now) ==
  LET id == IF opts.id = None THEN randomUUID(store) ELSE ValueOf(opts.id)
      NextCreatedSeq == Len(store) + 1
      RankCreations(s) ==
        [i \in 1..Len(s) |->
           [s[i] EXCEPT !.createdSeq =
              1 + Cardinality({j \in 1..Len(s) : s[j].createdSeq < s[i].createdSeq})]]
      issue == [id |-> id,
                status |-> "open",
                priority |-> IF opts.priority = None THEN "medium"
                             ELSE ValueOf(opts.priority),
                labels |-> IF opts.labels = None THEN <<>> ELSE ValueOf(opts.labels),
                linkedCommits |-> <<>>,
                linkedTasks |-> <<>>,
                createdAt |-> now,
                updatedAt |-> now,
                createdSeq |-> NextCreatedSeq]
      stored == RankCreations(SetKey(store, id, issue))
  IN [store |-> stored, issue |-> GetKey(stored, id)]

\* updateIssue that assigns the supplied lists to the linked fields.
updateIssue_ReplacesLinks(store, id, updates, now) ==
  LET issue == GetKey(store, id)
      updated ==
        [issue EXCEPT
           !.status = IF updates.status = None THEN @ ELSE ValueOf(updates.status),
           !.priority = IF updates.priority = None THEN @ ELSE ValueOf(updates.priority),
           !.labels = IF updates.labels = None THEN @ ELSE ValueOf(updates.labels),
           !.linkedCommits = IF updates.linkedCommits = None THEN @
                             ELSE ValueOf(updates.linkedCommits),
           !.linkedTasks = IF updates.linkedTasks = None THEN @
                           ELSE ValueOf(updates.linkedTasks),
           !.updatedAt = now]
  IN IF ~HasKey(store, id) THEN [ok |-> FALSE, store |-> store, issue |-> None]
     ELSE [ok |-> TRUE, store |-> SetKey(store, id, updated), issue |-> Some(updated)]

\* updateIssue(id, updates): [ok, store, issue]; ok is FALSE when it throws
\* 'Issue not found'.
updateIssue(store, id, updates, now) ==
  LET issue == GetKey(store, id)
      updated ==
        [issue EXCEPT
           !.status = IF updates.status = None THEN @ ELSE ValueOf(updates.status),
           !.priority = IF updates.priority = None THEN @ ELSE ValueOf(updates.priority),
           !.labels = IF updates.labels = None THEN @ ELSE ValueOf(updates.labels),
           !.linkedCommits = IF updates.linkedCommits = None THEN @
                             ELSE @ \o ValueOf(updates.linkedCommits),
           !.linkedTasks = IF updates.linkedTasks = None THEN @
                           ELSE @ \o ValueOf(updates.linkedTasks),
           !.updatedAt = now]
  IN IF ~HasKey(store, id) THEN [ok |-> FALSE, store |-> store, issue |-> None]
     ELSE [ok |-> TRUE, store |-> SetKey(store, id, updated), issue |-> Some(updated)]

priorityOrder(p) == IF p = "high" THEN 0 ELSE IF p = "medium" THEN 1 ELSE 2

\* Array.prototype.sort is stable: an element goes after the elements that do
\* not compare greater than it.  CompareIssues is the comparator of
\* listIssues: negative, zero or positive.
RECURSIVE InsertSorted(_, _)
InsertSorted(sorted, x) ==
  LET CompareIssues(a, b) ==
        LET priorityDiff == priorityOrder(a.priority) - priorityOrder(b.priority)
        IN IF priorityDiff # 0 THEN priorityDiff ELSE a.createdAt - b.createdAt
  IN IF sorted = <<>> THEN <<x>>
     ELSE IF CompareIssues(Head(sorted), x) <= 0
       THEN <<Head(sorted)>> \o InsertSorted(Tail(sorted), x)
     ELSE <<x>> \o sorted

RECURSIVE StableSort(_, _)
StableSort(sorted, rest) ==
  IF rest = <<>> THEN sorted
  ELSE StableSort(InsertSorted(sorted, Head(rest)), Tail(rest))

MatchesFilter(i, filter) ==
  /\ filter.status # None => i.status = ValueOf(filter.status)
  /\ filter.priority # None => i.priority = ValueOf(filter.priority)
  /\ filter.label # None => ValueOf(filter.label) \in Range(i.labels)

listIssues(store, filter) ==
  StableSort(<<>>, SelectSeq(store, LAMBDA i : MatchesFilter(i, filter)))

\* ---------------------------------------------------------------- actions
\* The callers that may have a call on a document under way, each a process
\* of its own with its own OrchestratorStore on the same file.
Callers == {"c1", "c2"}

\* A caller with no call under way.
Idle ==
  [phase |-> "idle", op |-> "none", id |-> "none",
   tasks |-> <<>>, orchestrations |-> <<>>]

Init ==
  /\ branches = {}
  /\ head = [k \in Names \cup {Main} |-> <<>>]
  /\ wt = [k \in Names |-> NoWorktree]
  /\ container = {}
  /\ sessions = [k \in Names |-> <<>>]
  /\ current = Main
  /\ last = NoCall
  /\ issues = <<>>
  /\ tasks = <<>>
  /\ clock = 0
  /\ orchestrations = <<>>
  /\ unparsable = {}
  /\ inflight = [c \in Callers |-> Idle]

Apply(r) ==
  /\ branches' = r.W.branches
  /\ head' = r.W.head
  /\ wt' = r.W.wt
  /\ container' = r.W.container
  /\ sessions' = r.W.sessions
  /\ current' = r.W.current
  /\ last' = r.last
  /\ UNCHANGED ledgerVars

EditsAllowed == IF TotalCommits < MaxCommits THEN Files \cup {NoEdit} ELSE {NoEdit}

\* A call with inputs drawn from the branches bs, and with the fault
\* combinations that can make a difference to the handler; faults that cannot
\* make a difference to the call are not drawn.
sandboxUpCoreFor(bs) ==
  \E k \in bs, task \in IF MaxSessions > 0 THEN Tasks \cup {NoTask} ELSE {NoTask},
     sid \in SessionIds \cup {NoSession}, edit \in EditsAllowed,
     F \in {{}, {"ensureCopilotFeature"}, {"containerUp.throw"}, {"containerUp.error"},
            {"containerUp.throw", "removeWorktree"},
            {"containerUp.error", "removeWorktree"}, {"containerExec"}} :
    /\ task = NoTask => (sid = NoSession /\ edit = NoEdit /\ "containerExec" \notin F)
    /\ task # NoTask => F \in {{}, {"containerExec"}}
    /\ Apply(sandboxUpCoreOn(World, k, task, sid, edit, F))

sandboxExecCoreFor(bs) ==
  \E branch \in bs \cup {Detached}, task \in Tasks, sid \in SessionIds \cup {NoSession},
     edit \in EditsAllowed,
     F \in {{}, {"containerUp.throw"}, {"containerUp.error"}, {"containerExec"}} :
    /\ LET ws == listWorktrees(World)
           i == findTarget(ws, branch)
       IN (sid = NoSession /\ i # 0 /\ F = {})
          => Len(sessions[KeyOfPath(World, ws[i].path)]) < MaxSessions
    /\ F # {} => (sid = NoSession /\ edit = NoEdit)
    /\ Apply(sandboxExecCoreOn(World, branch, task, sid, edit, F))

sandboxDownCoreFor(bs) ==
  \E branch \in bs \cup {Detached}, containerOnly \in BOOLEAN,
     F \in SUBSET {"containerDown", "removeWorktree"} :
    /\ containerOnly => "removeWorktree" \notin F
    /\ Apply(sandboxDownCoreOn(World, branch, containerOnly, F))

sandboxMergeCoreFor(bs) ==
  \E branch \in bs \cup {Detached},
     F \in {{}, {"rebase"}, {"containerDown"}, {"removeWorktree"},
            {"containerDown", "removeWorktree"}} :
    Apply(sandboxMergeCoreOn(World, branch, F))

sandboxListCore ==
  /\ last' = [NoCall EXCEPT !.op = "list", !.result = "ok",
                            !.list = sandboxListCoreOn(World)]
  /\ UNCHANGED <<branches, head, wt, container, sessions, current>>
  /\ UNCHANGED ledgerVars

\* Someone commits a change on the main branch of the repository.
MainCommit ==
  \E f \in Files :
    /\ TotalCommits < MaxCommits
    /\ head' = [head EXCEPT ![Main] = Append(@, <<Main, f>>)]
    /\ last' = NoCall
    /\ UNCHANGED <<branches, wt, container, sessions, current>>
    /\ UNCHANGED ledgerVars

\* In a worktree stopped at a conflict, the conflicted files are edited and
\* staged (git add); nothing is unmerged any more, the rebase is not continued.
StageResolution ==
  \E k \in Branches :
    /\ wt[k].live /\ wt[k].rebase = "conflict"
    /\ wt' = [wt EXCEPT ![k].rebase = "staged", ![k].unmerged = {}]
    /\ last' = NoCall
    /\ UNCHANGED <<branches, head, container, sessions, current>>
    /\ UNCHANGED ledgerVars

\* git rebase --continue after the resolution, through to the end of the
\* rebase: the branch ref moves to the rebased commits and HEAD is attached.
ContinueRebase ==
  \E k \in Branches :
    /\ wt[k].live /\ wt[k].rebase = "staged"
    /\ head' = [head EXCEPT ![k] =
                  wt[k].onto \o Suffix(head[k], CommonPrefixLen(head[k], wt[k].onto))]
    /\ wt' = [wt EXCEPT ![k] = [FreshWorktree EXCEPT !.resolved = TRUE]]
    /\ last' = NoCall
    /\ UNCHANGED <<branches, container, sessions, current>>
    /\ UNCHANGED ledgerVars

\* One caller working on one sandbox branch, every collaborator fault drawn.
SoloBranches == {"b1"}

Next ==
  \/ sandboxUpCoreFor(SoloBranches)
  \/ sandboxExecCoreFor(SoloBranches)
  \/ sandboxDownCoreFor(SoloBranches)
  \/ sandboxMergeCoreFor(SoloBranches)
  \/ sandboxListCore
  \/ MainCommit
  \/ StageResolution
  \/ ContinueRebase

Spec == Init /\ [][Next]_vars

\* Two sandbox branches side by side, no collaborator fault, the session id
\* always supplied by the caller; down is also called with the branch that
\* list() reports for a worktree whose rebase is stopped.
upDuo ==
  \E k \in DuoBranches :
    Apply(sandboxUpCoreOn(World, k, NoTask, NoSession, NoEdit, {}))

execDuo ==
  \E branch \in DuoBranches, task \in Tasks, sid \in SessionIds,
     edit \in EditsAllowed :
    Apply(sandboxExecCoreOn(World, branch, task, sid, edit, {}))

downDuo ==
  \E branch \in DuoBranches \cup {Detached}, containerOnly \in BOOLEAN :
    Apply(sandboxDownCoreOn(World, branch, containerOnly, {}))

mergeDuo ==
  \E branch \in DuoBranches :
    Apply(sandboxMergeCoreOn(World, branch, {}))

NextDuo ==
  \/ upDuo
  \/ execDuo
  \/ downDuo
  \/ mergeDuo
  \/ sandboxListCore
  \/ StageResolution
  \/ ContinueRebase

SpecDuo == Init /\ [][NextDuo]_vars

\* ------------------------------------------------------ concurrent merges
\* sandboxMergeCore is async: between its awaits another call can run.  A
\* caller's call in flight holds what the function holds in local variables;
\* each step below is the code from one await to the next.
mergeStepOf(c, r, slot) ==
  /\ branches' = r.W.branches
  /\ head' = r.W.head
  /\ wt' = r.W.wt
  /\ container' = r.W.container
  /\ sessions' = r.W.sessions
  /\ current' = r.W.current
  /\ last' = r.last
  /\ inflight' = [inflight EXCEPT ![c] = slot]
  /\ UNCHANGED <<issues, tasks, clock, orchestrations, unparsable>>

\* await listWorktrees, find, getCurrentBranch.
mergeLookup ==
  \E c \in Callers, branch \in DuoBranches :
    LET call == CallOf(World, "merge", branch, {})
        ws == listWorktrees(World)
        i == findTarget(ws, branch)
        steps1 == << <<"listWorktrees", TRUE>> >>
    IN /\ inflight[c].phase = "idle"
       /\ \A d \in Callers : inflight[d].id # branch
       /\ IF i = 0
          THEN mergeStepOf(c, Threw(World, call, steps1, ErrNotFound), Idle)
          ELSE mergeStepOf(c, [W |-> World, last |-> NoCall],
                           [phase |-> "found", op |-> "merge", id |-> branch,
                            k |-> KeyOfPath(World, ws[i].path),
                            call |-> call, steps |-> steps1])

\* await rebaseWorktree(target.path, sourceBranch).
mergeRebase ==
  \E c \in Callers :
    /\ inflight[c].phase = "found"
    /\ LET m == inflight[c]
           rb == rebaseWorktree(World, m.k, FALSE)
           steps2 == Append(m.steps, <<"rebaseWorktree", rb.success>>)
       IN IF rb.threw
            THEN mergeStepOf(c, Threw(rb.W, m.call, steps2, ErrRebase), Idle)
          ELSE IF ~rb.success
            THEN mergeStepOf(c, [W |-> rb.W,
                                 last |-> [m.call EXCEPT !.result = "conflict",
                                                         !.conflictFiles = rb.conflictFiles,
                                                         !.steps = steps2]], Idle)
          ELSE mergeStepOf(c, [W |-> rb.W, last |-> NoCall],
                           [m EXCEPT !.phase = "rebased", !.steps = steps2])

\* await fastForwardMerge(gitRoot, options.branch).
mergeFastForward ==
  \E c \in Callers :
    /\ inflight[c].phase = "rebased"
    /\ LET m == inflight[c]
           ff == fastForwardMerge(World, m.id)
           steps3 == Append(m.steps, <<"fastForwardMerge", ff.ok>>)
       IN IF ~ff.ok
            THEN mergeStepOf(c, Threw(ff.W, m.call, steps3, ErrFastForward), Idle)
          ELSE mergeStepOf(c, [W |-> ff.W, last |-> NoCall],
                           [m EXCEPT !.phase = "merged", !.steps = steps3])

\* containerDown, removeWorktree, deleteBranch, return.
mergeTeardown ==
  \E c \in Callers :
    /\ inflight[c].phase = "merged"
    /\ LET m == inflight[c]
       IN mergeStepOf(c, MergeTeardown(World, m.call, m.steps, m.k, m.id, {}), Idle)

\* Two sandboxes whose changes touch different files (b1 changes f, b2
\* changes g), merged by two callers at once; a sandbox is created while no
\* merge of its branch is in flight.
NextMerges ==
  \/ \E k \in DuoBranches :
       /\ \A c \in Callers : inflight[c].id # k
       /\ TotalCommits < MaxCommits
       /\ Apply(sandboxUpCoreOn(World, k, "t", NoSession,
                                IF k = "b1" THEN "f" ELSE "g", {}))
  \/ mergeLookup
  \/ mergeRebase
  \/ mergeFastForward
  \/ mergeTeardown

SpecMerges == Init /\ [][NextMerges]_vars

\* Two sandboxes whose branch names differ and whose worktree directories
\* have one name: sandbox/b1 and sandbox-b1.
NextTwin ==
  \/ sandboxUpCoreFor({"b1", Twin})
  \/ sandboxExecCoreFor({"b1", Twin})
  \/ sandboxDownCoreFor({"b1", Twin})
  \/ sandboxListCore

SpecTwin == Init /\ [][NextTwin]_vars

\* Orphaned branches and their cleanup: sandboxes are created, a worktree is
\* removed by hand with its branch left behind, a branch without a worktree is
\* checked out in the main working tree, cleanup is called with and without
\* dryRun.
RemoveWorktreeByHand ==
  \E k \in Branches :
    /\ wt[k].live
    /\ wt' = removeWorktree(World, k, FALSE).W.wt
    /\ sessions' = removeWorktree(World, k, FALSE).W.sessions
    /\ last' = NoCall
    /\ UNCHANGED <<branches, head, container, current>>
    /\ UNCHANGED ledgerVars

Checkout ==
  \E b \in branches \cup {Main} :
    /\ b # current
    /\ b \in Branches => ~wt[b].live
    /\ current' = b
    /\ last' = NoCall
    /\ UNCHANGED <<branches, head, wt, container, sessions>>
    /\ UNCHANGED ledgerVars

upClean ==
  \E k \in Branches :
    Apply(sandboxUpCoreOn(World, k, NoTask, NoSession, NoEdit, {}))

sandboxCleanupCore ==
  \E dryRun \in BOOLEAN :
    Apply(sandboxCleanupCoreOn(World, dryRun))

NextCleanup ==
  \/ upClean
  \/ RemoveWorktreeByHand
  \/ Checkout
  \/ sandboxCleanupCore
  \/ sandboxListCore

SpecCleanup == Init /\ [][NextCleanup]_vars

sandboxVars == <<branches, head, wt, container, sessions, current>>

MissingId == "zz"

\* ------------------------------------------------------- OrchestratorStore
\* A read that takes whatever the file holds for a document.
read_IgnoresParseError(doc, content) == content

\* read(): the content of a document; the empty store when the file is
\* missing or cannot be parsed.  The orchestrations and the tasks are the two
\* maps of the document "store", the issues the map of the document "issues".
read(doc, content) == IF doc \in unparsable THEN <<>> ELSE content

\* createOrchestration that returns the stored record when the id is in use.
createOrchestration_KeepsExisting(store, opts, now) ==
  IF opts.id # None /\ HasKey(store, ValueOf(opts.id))
  THEN [store |-> store, orchestration |-> GetKey(store, ValueOf(opts.id))]
  ELSE LET id == IF opts.id = None THEN randomUUID(store) ELSE ValueOf(opts.id)
           orchestration == [id |-> id, status |-> "active",
                             createdAt |-> now, updatedAt |-> now]
       IN [store |-> SetKey(store, id, orchestration), orchestration |-> orchestration]

\* createOrchestration(opts): [store, orchestration].
createOrchestration(store, opts, now) ==
  LET id == IF opts.id = None THEN randomUUID(store) ELSE ValueOf(opts.id)
      orchestration == [id |-> id, status |-> "active",
                        createdAt |-> now, updatedAt |-> now]
  IN [store |-> SetKey(store, id, orchestration), orchestration |-> orchestration]

\* updateOrchestration that leaves updatedAt alone when no field is supplied.
updateOrchestration_StampsOnChange(store, id, updates, now) ==
  LET orchestration == GetKey(store, id)
      updated ==
        [orchestration EXCEPT
           !.status = IF updates.status = None THEN @ ELSE ValueOf(updates.status),
           !.updatedAt = IF updates.status = None THEN @ ELSE now]
  IN IF ~HasKey(store, id)
     THEN [ok |-> FALSE, store |-> store, orchestration |-> None]
     ELSE [ok |-> TRUE, store |-> SetKey(store, id, updated),
           orchestration |-> Some(updated)]

\* updateOrchestration(id, updates): [ok, store, orchestration]; ok is FALSE
\* when it throws 'Orchestration not found'.
updateOrchestration(store, id, updates, now) ==
  LET orchestration == GetKey(store, id)
      updated ==
        [orchestration EXCEPT
           !.status = IF updates.status = None THEN @ ELSE ValueOf(updates.status),
           !.updatedAt = now]
  IN IF ~HasKey(store, id)
     THEN [ok |-> FALSE, store |-> store, orchestration |-> None]
     ELSE [ok |-> TRUE, store |-> SetKey(store, id, updated),
           orchestration |-> Some(updated)]

NoTaskFilter == [orchestrationId |-> None, status |-> None, ready |-> FALSE]

\* createTask(opts): [store, task].  Neither the id nor the dependencies are
\* looked up.
createTask(store, opts, now) ==
  LET id == IF opts.id = None THEN randomUUID(store) ELSE ValueOf(opts.id)
      task == [id |-> id,
               orchestrationId |-> opts.orchestrationId,
               status |-> "pending",
               branch |-> opts.branch,
               dependencies |-> IF opts.dependencies = None THEN <<>>
                                ELSE ValueOf(opts.dependencies),
               createdAt |-> now,
               updatedAt |-> now]
  IN [store |-> SetKey(store, id, task), task |-> task]

\* updateTask(id, updates): [ok, store, task]; ok is FALSE when it throws
\* 'Task not found'.
updateTask_DropsStatus(store, id, updates, now) ==
  LET task == GetKey(store, id)
      updated == [task EXCEPT !.updatedAt = now]
  IN IF ~HasKey(store, id) THEN [ok |-> FALSE, store |-> store, task |-> None]
     ELSE [ok |-> TRUE, store |-> SetKey(store, id, updated), task |-> Some(updated)]

\* updateTask that writes a document holding the updated task only.
updateTask_WritesOnlyTask(store, id, updates, now) ==
  LET task == GetKey(store, id)
      updated ==
        [task EXCEPT
           !.status = IF updates.status = None THEN @ ELSE ValueOf(updates.status),
           !.branch = IF "branch" \in DOMAIN updates THEN updates.branch ELSE @,
           !.updatedAt = now]
  IN IF ~HasKey(store, id) THEN [ok |-> FALSE, store |-> store, task |-> None]
     ELSE [ok |-> TRUE, store |-> <<updated>>, task |-> Some(updated)]

\* Object.assign(task, updates, {updatedAt}): a key of updates is assigned
\* when it is there (status |-> None stands for an updates object without
\* status; branch is there when the record has the field).
updateTask(store, id, updates, now) ==
  LET task == GetKey(store, id)
      updated ==
        [task EXCEPT
           !.status = IF updates.status = None THEN @ ELSE ValueOf(updates.status),
           !.branch = IF "branch" \in DOMAIN updates THEN updates.branch ELSE @,
           !.updatedAt = now]
  IN IF ~HasKey(store, id) THEN [ok |-> FALSE, store |-> store, task |-> None]
     ELSE [ok |-> TRUE, store |-> SetKey(store, id, updated), task |-> Some(updated)]

\* listTasks(filter)
listTasks(store, filter) ==
  LET byOrchestration ==
        IF filter.orchestrationId = None THEN store
        ELSE SelectSeq(store,
               LAMBDA t : t.orchestrationId = ValueOf(filter.orchestrationId))
  IN IF filter.status = None THEN byOrchestration
     ELSE SelectSeq(byOrchestration, LAMBDA t : t.status = ValueOf(filter.status))

\* getUnmetDependencies that does not count a task as its own dependency.
getUnmetDependencies_SkipsSelf(store, taskId) ==
  IF ~HasKey(store, taskId) THEN <<>>
  ELSE LET kept == SelectSeq(GetKey(store, taskId).dependencies,
                     LAMBDA depId : /\ depId # taskId
                                    /\ HasKey(store, depId)
                                    /\ GetKey(store, depId).status # "done")
       IN [i \in 1..Len(kept) |-> GetKey(store, kept[i])]

\* getUnmetDependencies without the test of the status: every dependency that
\* is a task of the ledger is unmet.
getUnmetDependencies_DoneIsUnmet(store, taskId) ==
  IF ~HasKey(store, taskId) THEN <<>>
  ELSE LET kept == SelectSeq(GetKey(store, taskId).dependencies,
                     LAMBDA depId : HasKey(store, depId))
       IN [i \in 1..Len(kept) |-> GetKey(store, kept[i])]

getUnmetDependencies_FailedIsMet(store, taskId) ==
  IF ~HasKey(store, taskId) THEN <<>>
  ELSE LET kept == SelectSeq(GetKey(store, taskId).dependencies,
                     LAMBDA depId : /\ HasKey(store, depId)
                                    /\ GetKey(store, depId).status \notin {"done", "failed"})
       IN [i \in 1..Len(kept) |-> GetKey(store, kept[i])]

getUnmetDependencies_FirstOnly(store, taskId) ==
  IF ~HasKey(store, taskId) THEN <<>>
  ELSE LET kept == SelectSeq(GetKey(store, taskId).dependencies,
                     LAMBDA depId : /\ depId = GetKey(store, taskId).dependencies[1]
                                    /\ HasKey(store, depId)
                                    /\ GetKey(store, depId).status # "done")
       IN [i \in 1..Len(kept) |-> GetKey(store, kept[i])]

\* getUnmetDependencies that reports a dependency with no task as unmet.
getUnmetDependencies_MissingIsUnmet(store, taskId) ==
  IF ~HasKey(store, taskId) THEN <<>>
  ELSE LET kept == SelectSeq(GetKey(store, taskId).dependencies,
                     LAMBDA depId : \/ ~HasKey(store, depId)
                                    \/ GetKey(store, depId).status # "done")
       IN [i \in 1..Len(kept) |->
             IF HasKey(store, kept[i]) THEN GetKey(store, kept[i])
             ELSE [id |-> kept[i], status |-> "missing"]]

\* getUnmetDependencies(taskId): the dependencies are looked up; an id with no
\* task maps to undefined and is filtered out with the done ones.
getUnmetDependencies(store, taskId) ==
  IF ~HasKey(store, taskId) THEN <<>>
  ELSE LET kept == SelectSeq(GetKey(store, taskId).dependencies,
                     LAMBDA depId : /\ HasKey(store, depId)
                                    /\ GetKey(store, depId).status # "done")
       IN [i \in 1..Len(kept) |-> GetKey(store, kept[i])]

\* task_list: listTasks and, with ready, the tasks of it that are neither done
\* nor cancelled and have no unmet dependency.
taskList(store, filter) ==
  LET listed == listTasks(store, filter)
  IN IF ~filter.ready THEN listed
     ELSE SelectSeq(listed,
            LAMBDA t : /\ t.status \notin {"done", "cancelled"}
                       /\ getUnmetDependencies(store, t.id) = <<>>)

\* ------------------------------------------------------- task store calls
\* A call on the document "store" reads the whole document and, unless it
\* throws or only reads, writes the whole document back.
createOrchestrationWith(ids) ==
  \E id \in ids :
    LET opts == [id |-> id]
        r == createOrchestration(read("store", orchestrations), opts, clock)
    IN /\ orchestrations' = r.store
       /\ tasks' = read("store", tasks)
       /\ unparsable' = unparsable \ {"store"}
       /\ last' = [NoCall EXCEPT !.op = "createOrchestration", !.arg = opts,
                                 !.result = "ok", !.out = r.orchestration]
       /\ UNCHANGED <<issues, clock, inflight>>
       /\ UNCHANGED sandboxVars

updateOrchestrationWith(updateSet) ==
  \E id \in KeysOf(read("store", orchestrations)) \cup {MissingId},
     updates \in updateSet :
    LET r == updateOrchestration(read("store", orchestrations), id, updates, clock)
    IN /\ IF r.ok
          THEN /\ orchestrations' = r.store
               /\ tasks' = read("store", tasks)
               /\ unparsable' = unparsable \ {"store"}
          ELSE UNCHANGED <<orchestrations, tasks, unparsable>>
       /\ last' = [NoCall EXCEPT !.op = "updateOrchestration",
                                 !.arg = [id |-> id, updates |-> updates],
                                 !.result = IF r.ok THEN "ok" ELSE "error",
                                 !.error = IF r.ok THEN "none"
                                           ELSE "Orchestration not found",
                                 !.out = r.orchestration]
       /\ UNCHANGED <<issues, clock, inflight>>
       /\ UNCHANGED sandboxVars

createTaskWith(optsSet) ==
  \E opts \in optsSet :
    LET r == createTask(read("store", tasks), opts, clock)
    IN /\ tasks' = r.store
       /\ orchestrations' = read("store", orchestrations)
       /\ unparsable' = unparsable \ {"store"}
       /\ last' = [NoCall EXCEPT !.op = "createTask", !.arg = opts,
                                 !.result = "ok", !.out = r.task]
       /\ UNCHANGED <<issues, clock, inflight>>
       /\ UNCHANGED sandboxVars

updateTaskWith(updateSet) ==
  \E id \in KeysOf(read("store", tasks)) \cup {MissingId}, updates \in updateSet :
    LET r == updateTask(read("store", tasks), id, updates, clock)
    IN /\ IF r.ok
          THEN /\ tasks' = r.store
               /\ orchestrations' = read("store", orchestrations)
               /\ unparsable' = unparsable \ {"store"}
          ELSE UNCHANGED <<orchestrations, tasks, unparsable>>
       /\ last' = [NoCall EXCEPT !.op = "updateTask",
                                 !.arg = [id |-> id, updates |-> updates],
                                 !.result = IF r.ok THEN "ok" ELSE "error",
                                 !.error = IF r.ok THEN "none" ELSE "Task not found",
                                 !.out = r.task]
       /\ UNCHANGED <<issues, clock, inflight>>
       /\ UNCHANGED sandboxVars

\* task_get / issue_get: the record, or an error result when there is none.
getRecord ==
  \E op \in {"task_get", "issue_get"},
     id \in KeysOf(tasks) \cup KeysOf(issues) \cup {MissingId} :
    LET store == IF op = "task_get" THEN read("store", tasks)
                 ELSE read("issues", issues)
    IN /\ last' = [NoCall EXCEPT
                     !.op = op, !.arg = id,
                     !.result = IF HasKey(store, id) THEN "ok" ELSE "error",
                     !.error = IF HasKey(store, id) THEN "none"
                               ELSE IF op = "task_get" THEN "Task not found"
                               ELSE "Issue not found",
                     !.out = IF HasKey(store, id) THEN Some(GetKey(store, id))
                             ELSE None]
       /\ UNCHANGED ledgerVars
       /\ UNCHANGED sandboxVars

getUnmetDependenciesT ==
  \E id \in KeysOf(read("store", tasks)) \cup {MissingId} :
    /\ last' = [NoCall EXCEPT !.op = "getUnmetDependencies", !.arg = id,
                              !.result = "ok",
                              !.out = getUnmetDependencies(read("store", tasks), id)]
    /\ UNCHANGED ledgerVars
    /\ UNCHANGED sandboxVars

taskListT ==
  \E filter \in {NoTaskFilter,
                  [NoTaskFilter EXCEPT !.status = Some("pending")],
                  [NoTaskFilter EXCEPT !.ready = TRUE],
                  [NoTaskFilter EXCEPT !.ready = TRUE,
                                       !.orchestrationId = Some("o1")]} :
    /\ last' = [NoCall EXCEPT !.op = "task_list", !.arg = filter,
                              !.result = "ok",
                              !.out = taskList(read("store", tasks), filter)]
    /\ UNCHANGED ledgerVars
    /\ UNCHANGED sandboxVars

\* Tasks and their dependencies.  The dependencies a task is created with:
\* none, a task, two tasks, or MissingId, the id of no task.
NextTasks ==
  \/ createTaskWith(
       {[id |-> Some(id), orchestrationId |-> "o1", branch |-> None,
         dependencies |-> IF dependencies = <<>> THEN None ELSE Some(dependencies)] :
          <<id, dependencies>> \in {<<"t1", <<>> >>, <<"t1", <<MissingId>> >>,
                                    <<"t2", <<>> >>, <<"t2", <<"t1">> >>,
                                    <<"t3", <<"t1", "t2">> >>}})
  \/ updateTaskWith(
       {[status |-> Some(status)] :
          status \in {"in_progress", "done", "failed", "cancelled"}})
  \/ getUnmetDependenciesT
  \/ taskListT

SpecTasks == Init /\ [][NextTasks]_vars

\* The orchestration loop: the caller takes a task of the ready listing and,
\* its work finished, marks it done.
completeReadyTask ==
  \E t \in LET ready == taskList(read("store", tasks),
                                  [NoTaskFilter EXCEPT !.ready = TRUE])
          IN {ready[i].id : i \in 1..Len(ready)} :
    LET updates == [status |-> Some("done")]
        r == updateTask(read("store", tasks), t, updates, clock)
    IN /\ tasks' = r.store
       /\ orchestrations' = read("store", orchestrations)
       /\ unparsable' = unparsable \ {"store"}
       /\ last' = [NoCall EXCEPT !.op = "updateTask",
                                 !.arg = [id |-> t, updates |-> updates],
                                 !.result = "ok", !.out = r.task]
       /\ UNCHANGED <<issues, clock, inflight>>
       /\ UNCHANGED sandboxVars

\* Plans of up to three tasks, each created once, with no dependency, with one
\* (itself, an earlier task, or a task created later or never), or with two;
\* tasks are marked done only by the orchestration loop.
NextPlans ==
  \/ createTaskWith(
       {[id |-> Some(id), orchestrationId |-> "o1", branch |-> None,
         dependencies |-> IF dependencies = <<>> THEN None ELSE Some(dependencies)] :
          <<id, dependencies>> \in
            ({"t1", "t2", "t3"} \ KeysOf(tasks))
              \X {<<>>, <<"t1">>, <<"t2">>, <<"t3">>, <<"t1", "t2">>}})
  \/ completeReadyTask
  \/ getUnmetDependenciesT
  \/ taskListT

SpecPlans == Init /\ [][NextPlans]_vars

\* The loop keeps going while there is a ready task.
FairSpecPlans == SpecPlans /\ WF_vars(completeReadyTask)

\* ------------------------------------------------------ issue store calls
\* Time passes.
Tick ==
  /\ clock < MaxClock
  /\ clock' = clock + 1
  /\ last' = NoCall
  /\ UNCHANGED <<issues, tasks, orchestrations, unparsable, inflight>>
  /\ UNCHANGED sandboxVars

createIssueWith(ids, priorities, labelLists) ==
  \E id \in ids, priority \in priorities, labels \in labelLists :
    LET opts == [id |-> id, priority |-> priority, labels |-> labels]
        stored == read("issues", issues)
        key == IF id = None THEN randomUUID(stored) ELSE ValueOf(id)
        r == createIssue(stored, opts, clock)
    IN /\ key # "none"
       /\ HasKey(stored, key) \/ Len(stored) < MaxIssues
       /\ issues' = r.store
       /\ unparsable' = unparsable \ {"issues"}
       /\ last' = [NoCall EXCEPT !.op = "createIssue", !.arg = opts,
                                 !.result = "ok", !.out = r.issue]
       /\ UNCHANGED <<tasks, clock, orchestrations, inflight>>
       /\ UNCHANGED sandboxVars

updateIssueWith(updateSet) ==
  \E id \in KeysOf(read("issues", issues)) \cup {MissingId}, updates \in updateSet :
    LET r == updateIssue(read("issues", issues), id, updates, clock)
        RECURSIVE TotalLinks(_)
        TotalLinks(i) ==
          IF i > Len(r.store) THEN 0
          ELSE Len(r.store[i].linkedCommits) + Len(r.store[i].linkedTasks)
               + TotalLinks(i + 1)
    IN /\ TotalLinks(1) <= MaxLinks
       /\ IF r.ok
          THEN issues' = r.store /\ unparsable' = unparsable \ {"issues"}
          ELSE UNCHANGED <<issues, unparsable>>
       /\ last' = [NoCall EXCEPT !.op = "updateIssue",
                                 !.arg = [id |-> id, updates |-> updates],
                                 !.result = IF r.ok THEN "ok" ELSE "error",
                                 !.error = IF r.ok THEN "none" ELSE "Issue not found",
                                 !.out = r.issue]
       /\ UNCHANGED <<tasks, clock, orchestrations, inflight>>
       /\ UNCHANGED sandboxVars

listIssuesWith(filters) ==
  \E filter \in filters :
    /\ last' = [NoCall EXCEPT !.op = "listIssues", !.arg = filter,
                              !.result = "ok",
                              !.out = listIssues(read("issues", issues), filter)]
    /\ UNCHANGED ledgerVars
    /\ UNCHANGED sandboxVars

\* Issues and their linked lists and labels: issues are created (some of them
\* twice) and updated with lists of commits, of tasks and of labels.
NextIssueUpdate ==
  \/ createIssueWith({Some("1"), Some("2")}, {None}, {None, Some(<<"x">>)})
  \/ updateIssueWith(
       {[NoUpdates EXCEPT !.labels = l, !.linkedCommits = c, !.linkedTasks = t] :
          l \in {None, Some(<<>>), Some(<<"y">>)},
          c \in {None, Some(<<"c1">>), Some(<<"c2">>), Some(<<"c1", "c2">>)},
          t \in {None, Some(<<"t1">>)}})

SpecIssueUpdate == Init /\ [][NextIssueUpdate]_vars

\* Issues and their listing: issues are created with ids of the caller or
\* generated ones, within one clock reading or not, and listed with and
\* without a filter.
NextIssueList ==
  \/ createIssueWith({None, Some("1"), Some("2")}, {None, Some("high")}, {None})
  \/ updateIssueWith(
       {[NoUpdates EXCEPT !.status = Some("resolved"), !.labels = Some(<<"x">>)]})
  \/ listIssuesWith({NoFilter,
                     [NoFilter EXCEPT !.status = Some("open")],
                     [NoFilter EXCEPT !.priority = Some("high")],
                     [NoFilter EXCEPT !.label = Some("x")]})
  \/ Tick

SpecIssueList == Init /\ [][NextIssueList]_vars

\* The file of a document is removed or overwritten with text that is not
\* JSON by something other than the stores.
Corrupt ==
  \E doc \in {"store", "issues"} \ unparsable :
    /\ unparsable' = unparsable \cup {doc}
    /\ last' = NoCall
    /\ UNCHANGED <<issues, tasks, clock, orchestrations, inflight>>
    /\ UNCHANGED sandboxVars

\* A call of one of several callers, in its two steps.  readCall is the
\* this.read() that opens createTask and updateTask: the caller holds the
\* whole document as it is now.  A caller creates a task under an id its
\* document does not hold.
readCall ==
  \E c \in Callers, op \in {"createTask", "updateTask"}, id \in {"t1", "t2"} :
    /\ inflight[c].phase # "read"
    /\ op = "createTask" => ~HasKey(read("store", tasks), id)
    /\ inflight' = [inflight EXCEPT
                      ![c] = [phase |-> "read", op |-> op, id |-> id,
                              tasks |-> read("store", tasks),
                              orchestrations |-> read("store", orchestrations)]]
    /\ last' = NoCall
    /\ UNCHANGED <<issues, tasks, clock, orchestrations, unparsable>>
    /\ UNCHANGED sandboxVars

\* writeCall is the rest of the method: the change is made to the document
\* the caller holds and this.write(data) replaces the file with it; an
\* updateTask of an id its document does not hold throws and writes nothing.
writeCall ==
  \E c \in Callers :
    LET call == inflight[c]
        created == createTask(call.tasks,
                              [id |-> Some(call.id), orchestrationId |-> "o1",
                               branch |-> None, dependencies |-> None], clock)
        updated == updateTask(call.tasks, call.id, [status |-> Some("done")], clock)
        ok == call.op = "createTask" \/ updated.ok
    IN /\ call.phase = "read"
       /\ IF ok
          THEN /\ tasks' = IF call.op = "createTask" THEN created.store
                           ELSE updated.store
               /\ orchestrations' = call.orchestrations
               /\ unparsable' = unparsable \ {"store"}
          ELSE UNCHANGED <<tasks, orchestrations, unparsable>>
       /\ inflight' = [inflight EXCEPT
                         ![c] = [Idle EXCEPT
                                   !.phase = IF ok THEN "ok" ELSE "error",
                                   !.op = call.op, !.id = call.id]]
       /\ last' = [NoCall EXCEPT !.op = call.op, !.arg = call.id,
                                 !.result = IF ok THEN "ok" ELSE "error",
                                 !.error = IF ok THEN "none" ELSE "Task not found"]
       /\ UNCHANGED <<issues, clock>>
       /\ UNCHANGED sandboxVars

\* Several callers on the one file of orchestrations and tasks, with nothing
\* between the read and the write of a call that keeps another caller out.
NextRace ==
  \/ readCall
  \/ writeCall

SpecRace == Init /\ [][NextRace]_vars

\* The ledger: one sequential caller creates, updates and reads the records
\* of both documents while the clock advances and a document may become
\* unreadable.
NextLedger ==
  \/ createOrchestrationWith({Some("o1")})
  \/ updateOrchestrationWith({[status |-> None], [status |-> Some("completed")]})
  \/ createTaskWith({[id |-> Some("t1"), orchestrationId |-> "o1", branch |-> None,
                      dependencies |-> None]})
  \/ updateTaskWith({[status |-> None], [status |-> Some("done")]})
  \/ createIssueWith({Some("1")}, {None}, {None})
  \/ updateIssueWith({NoUpdates, [NoUpdates EXCEPT !.status = Some("resolved")]})
  \/ getRecord
  \/ getUnmetDependenciesT
  \/ listIssuesWith({NoFilter})
  \/ Corrupt
  \/ Tick

SpecLedger == Init /\ [][NextLedger]_vars

\* Field-level updates on documents with two tasks, an orchestration and two
\* issues; the records are created before the clock first advances and are
\* updated at any time.
NextFrame ==
  \/ createOrchestrationWith(IF clock = 0 THEN {Some("o1")} ELSE {})
  \/ createTaskWith(
       {[id |-> Some(id), orchestrationId |-> "o1", branch |-> None,
         dependencies |-> IF id = "t1" THEN None ELSE Some(<<"t1">>)] :
          id \in IF clock = 0 THEN {"t1", "t2"} \ KeysOf(tasks) ELSE {}})
  \/ updateTaskWith({[status |-> Some("done")],
                     [status |-> None, branch |-> Some("b1")]})
  \/ createIssueWith(IF clock = 0 THEN {Some("1"), Some("2")} \ {Some(id) : id \in KeysOf(issues)} ELSE {},
                     {None}, {None})
  \/ updateIssueWith({[NoUpdates EXCEPT !.status = Some("resolved")]})
  \/ Tick

SpecFrame == Init /\ [][NextFrame]_vars

\* A notifier that leaves the rejection of a failed notification unhandled.
createOutputNotifier_Uncaught(progressToken) ==
  IF progressToken = None THEN [notifies |-> FALSE, catches |-> TRUE]
  ELSE [notifies |-> TRUE, catches |-> FALSE]

\* createOutputNotifier(extra): without a progress token onOutput and stop do
\* nothing; with one, onOutput and the heartbeat send notifications/progress
\* and catch the rejection of each send.
createOutputNotifier(progressToken) ==
  IF progressToken = None THEN [notifies |-> FALSE, catches |-> TRUE]
  ELSE [notifies |-> TRUE, catches |-> TRUE]

\* The handler of the sandbox_up and sandbox_exec tools around the result r
\* of the core function it awaits: the notifier runs beside the call.  A
\* rejection nobody handles ends the server process, and the call with it.
withOutputNotifier(r, progressToken, sendFails) ==
  LET notifier == createOutputNotifier(progressToken)
  IN IF notifier.notifies /\ sendFails /\ ~notifier.catches
     THEN [W |-> r.W,
           last |-> [r.last EXCEPT !.result = "crash", !.progress = "failed"]]
     ELSE [W |-> r.W,
           last |-> [r.last EXCEPT
                       !.progress = IF ~notifier.notifies THEN "none"
                                    ELSE IF sendFails THEN "failed" ELSE "sent"]]

\* sandboxUpCore and sandboxExecCore called with no onOutput ("absent", as
\* the command line does) or by their tools, whose onOutput is the no-op of a
\* request without progress token or the sender of one with it.
sandboxToolCall ==
  \E op \in {"up", "exec"}, onOutput \in {"absent", "tool"},
     progressToken \in {None, Some("p")}, sendFails \in BOOLEAN,
     task \in Tasks \cup {NoTask}, sid \in SessionIds \cup {NoSession},
     edit \in EditsAllowed \ {"g"} :
    LET r == IF op = "up"
             THEN sandboxUpCoreOn(World, "b1", task, sid, edit, {})
             ELSE sandboxExecCoreOn(World, "b1", task, sid, edit, {})
        t == IF onOutput = "absent" THEN r
             ELSE withOutputNotifier(r, progressToken, sendFails)
    IN /\ progressToken = None => ~sendFails
       /\ onOutput = "absent" => progressToken = None
       /\ (op = "up" /\ onOutput = "tool") => task = NoTask
       /\ (op = "exec" /\ onOutput = "tool") => sid # NoSession
       /\ op = "exec" => task # NoTask
       /\ task = NoTask => (sid = NoSession /\ edit = NoEdit)
       /\ (op = "exec" /\ sid = NoSession) => Len(sessions["b1"]) < MaxSessions
       /\ Apply([W |-> t.W,
                 last |-> [t.last EXCEPT
                             !.arg = [task |-> task, sid |-> sid, edit |-> edit,
                                      onOutput |-> onOutput,
                                      progressToken |-> progressToken]]])

\* A sandbox_merge tool that refuses while the task bound to the branch has
\* dependencies that are not done.
sandbox_merge_BlocksOnUnmet(W, store, branch, F) ==
  IF \E i \in 1..Len(store) :
       /\ store[i].branch = Some(branch)
       /\ getUnmetDependencies(store, store[i].id) # <<>>
  THEN Threw(W, CallOf(W, "merge", branch, F), <<>>, "unmet dependencies")
  ELSE sandboxMergeCoreOn(W, branch, F)

\* The sandbox_merge tool, on a repository whose task store is store: it
\* calls sandboxMergeCore({dir, branch}) and does not open the store.
sandbox_merge(W, store, branch, F) == sandboxMergeCoreOn(W, branch, F)

sandboxMergeTool ==
  Apply(sandbox_merge(World, read("store", tasks), "b1", {}))

\* The tools of one server on one repository: a sandbox, and the tasks that
\* track it, t1 bound to the branch of the sandbox and depending on t2.
NextTools ==
  \/ sandboxToolCall
  \/ sandboxMergeTool
  \/ sandboxDownCoreFor({"b1"})
  \/ sandboxCleanupCore
  \/ createTaskWith({[id |-> Some("t1"), orchestrationId |-> "o1",
                      branch |-> Some("b1"), dependencies |-> Some(<<"t2">>)],
                     [id |-> Some("t2"), orchestrationId |-> "o1",
                      branch |-> None, dependencies |-> None]})
  \/ updateTaskWith({[status |-> Some("done")]})

SpecTools == Init /\ [][NextTools]_vars

\* One sandbox and its session log: tasks run by up and by exec, with and
\* without a session id of the caller, until the log holds MaxLog entries; no
\* collaborator fault.
upLog ==
  \E task \in Tasks \cup {NoTask}, sid \in SessionIds \cup {NoSession},
     edit \in EditsAllowed :
    /\ task = NoTask => (sid = NoSession /\ edit = NoEdit)
    /\ Apply(sandboxUpCoreOn(World, "b1", task, sid, edit, {}))

execLog ==
  \E branch \in SoloBranches \cup {Detached}, task \in Tasks,
     sid \in SessionIds \cup {NoSession}, edit \in EditsAllowed :
    /\ sid = NoSession => Len(sessions["b1"]) < MaxLog
    /\ Apply(sandboxExecCoreOn(World, branch, task, sid, edit, {}))

downLog ==
  \E branch \in SoloBranches \cup {Detached}, containerOnly \in BOOLEAN :
    Apply(sandboxDownCoreOn(World, branch, containerOnly, {}))

mergeLog ==
  \E branch \in SoloBranches \cup {Detached} :
    Apply(sandboxMergeCoreOn(World, branch, {}))

NextLog ==
  \/ upLog
  \/ execLog
  \/ downLog
  \/ mergeLog
  \/ sandboxListCore
  \/ MainCommit
  \/ StageResolution
  \/ ContinueRebase

SpecLog == Init /\ [][NextLog]_vars

\* ------------------------------------------------------------- properties
StepNames(steps) == {steps[i][1] : i \in 1..Len(steps)}

Listed == sandboxListCoreOn(World)

ListedBranches == {Listed[i].branch : i \in 1..Len(Listed)}

ListedPaths == {Listed[i].worktreePath : i \in 1..Len(Listed)}

NoOverlap(b) == FirstOverlap(OwnChanges(World, b), FilesOf(TheirChanges(World, b)), 1) = 0

TeardownSteps == {"containerDown", "removeWorktree", "deleteBranch"}

\* C1: when up(b) has created the worktree and the branch and the container
\* then fails to start (containerUp throws or reports an outcome other than
\* success), the call returns with the worktree and the branch b gone and
\* raises the environment-start error.  (A rollback whose own git worktree
\* remove fails is not this case.)
C1_RollbackOnEnvStartFailure ==
  (/\ last.op = "up"
   /\ <<"containerUp", FALSE>> \in Range(last.steps)
   /\ "removeWorktree" \notin last.faults)
  => /\ ~wt[last.branch].live
     /\ last.branch \notin branches
     /\ last.result = "error"
     /\ last.error = IF "containerUp.throw" \in last.faults
                      THEN ErrContainerUpThrew ELSE ErrContainerOutcome

C1_Witness ==
  /\ last.op = "up"
  /\ last.steps[1] = <<"createWorktree", TRUE>>
  /\ <<"containerUp", FALSE>> \in Range(last.steps)
  /\ <<"deleteBranch", TRUE>> \in Range(last.steps)
  /\ last.error \in {ErrContainerUpThrew, ErrContainerOutcome}

\* C2: a merge(b) that returns a conflict changes nothing but the worktree's
\* rebase state: every worktree and every branch ref is still there, no
\* container is stopped, no session log changes, the target head is unchanged.
C2_ConflictLeavesStateIntact ==
  [][(last'.op = "merge" /\ last'.result = "conflict")
       => /\ \A k \in Branches : wt[k].live => wt'[k].live
          /\ branches' = branches
          /\ head' = head
          /\ container' = container
          /\ sessions' = sessions
          /\ last'.conflictFiles # {}]_vars

C2_Witness ==
  /\ last.op = "merge" /\ last.result = "conflict" /\ last.branch \in Branches
  /\ wt[last.branch].live /\ last.branch \in branches /\ last.branch \in container

\* C3: while the rebase started by a conflicted merge(b) is in progress, list()
\* reports the sandbox under branch b and a call naming b finds its worktree
\* (it does not fail with 'No worktree found for branch').
C3_AddressableDuringConflict ==
  \A b \in Branches :
    (wt[b].live /\ wt[b].rebase # "none")
    => /\ b \in ListedBranches
       /\ findTarget(listWorktrees(World), b) # 0
       /\ ~(last.branch = b /\ last.error = ErrNotFound)

\* C4: once the conflicts of a conflicted merge(b) have been resolved in the
\* retained worktree and the rebase completed, a merge(b) (with no new
\* overlapping change on the target, and git worktree remove and git rebase not
\* failing) returns success, advances the target by the sandbox's changes, and
\* removes the worktree and the branch.
C4_RetryAfterResolution ==
  [][\A b \in Branches :
       (/\ last'.op = "merge" /\ last'.branch = b
        /\ wt[b].live /\ wt[b].resolved /\ wt[b].rebase = "none"
        /\ NoOverlap(b)
        /\ last'.faults \subseteq {"containerDown"})
       => /\ last'.result = "ok"
          /\ head'[Main] = head[Main] \o OwnChanges(World, b)
          /\ ~wt'[b].live
          /\ b \notin branches']_vars

C4_Witness ==
  /\ last.op = "merge" /\ last.result = "ok" /\ last.pre.resolved
  /\ Len(head[Main]) >= 2

\* C5: merge(b) on a live sandbox whose changes do not overlap the target's
\* (git worktree remove and git rebase not failing) returns success; the target
\* head then is its old history followed by the sandbox's changes, b is not in
\* list() and b is not a local branch.
C5_CleanMergeSucceeds ==
  [][\A b \in Branches :
       (/\ last'.op = "merge" /\ last'.branch = b
        /\ wt[b].live /\ wt[b].rebase = "none"
        /\ NoOverlap(b)
        /\ last'.faults \subseteq {"containerDown"})
       => /\ last'.result = "ok"
          /\ head'[Main] = head[Main] \o OwnChanges(World, b)
          /\ b \notin ListedBranches'
          /\ b \notin branches']_vars

C5_Witness ==
  /\ last.op = "merge" /\ last.result = "ok" /\ ~last.pre.resolved
  /\ \E i \in 1..Len(head[Main]) : head[Main][i][1] = last.branch
  /\ \E i \in 1..Len(head[Main]) : head[Main][i][1] = Main

\* C6: in a merge(b) the fast-forward is attempted only after rebaseWorktree
\* reported success; when merge returns a conflict or raises from the rebase,
\* the target head is what it was and no teardown step has run.
C6_RebaseBeforeFastForward ==
  [][last'.op = "merge"
       => /\ \A i \in 1..Len(last'.steps) :
               last'.steps[i][1] = "fastForwardMerge"
               => \E j \in 1..(i - 1) : last'.steps[j] = <<"rebaseWorktree", TRUE>>
          /\ (last'.result = "conflict" \/ last'.error = ErrRebase)
             => /\ head'[Main] = head[Main]
                /\ StepNames(last'.steps) \cap (TeardownSteps \cup {"fastForwardMerge"}) = {}
                /\ container' = container
                /\ branches' = branches
                /\ \A k \in Branches : wt'[k].live = wt[k].live]_vars

C6_Witness ==
  /\ last.op = "merge" /\ last.error = ErrRebase
  /\ last.pre.live /\ Len(head[Main]) > 0

\* C7: a merge(b) that returns success:false carries a non-empty conflictFiles
\* that is exactly the set of paths the rebase left unmerged in the worktree.
C7_ConflictFilesReported ==
  (last.op = "merge" /\ last.result = "conflict")
  => /\ last.conflictFiles # {}
     /\ \E k \in Branches :
          /\ wt[k].live /\ wt[k].rebase = "conflict"
          /\ last.branch \in {k, Detached}
          /\ last.conflictFiles = wt[k].unmerged

C7_Witness ==
  /\ last.op = "merge" /\ last.result = "conflict"
  /\ last.conflictFiles = {"f"}

\* C8: once merge(b) has fast-forwarded the target, the three teardown steps are
\* all attempted and merge returns success, whichever of them fails.
C8_TeardownBestEffort ==
  (last.op = "merge" /\ <<"fastForwardMerge", TRUE>> \in Range(last.steps))
  => /\ last.result = "ok"
     /\ TeardownSteps \subseteq StepNames(last.steps)

\* C9: down(b, containerOnly=true) on a live sandbox stops the container and
\* keeps the worktree and the branch (b stays in list()); down(b,
\* containerOnly=false) from any live state, a stopped rebase included, removes
\* the worktree and the branch.
C9_DownFromAnyLiveState ==
  [][\A b \in Branches :
       (last'.op = "down" /\ last'.branch = b /\ wt[b].live /\ last'.faults = {})
       => IF last'.containerOnly
          THEN /\ b \notin container'
               /\ wt'[b].live /\ b \in branches' /\ b \in ListedBranches'
          ELSE ~wt'[b].live /\ b \notin branches']_vars

\* C10: after a successful up(b), list() has exactly one entry whose branch is
\* b; in every state list() has no entry for the root worktree of the
\* repository and no bare entry.
C10_ListAfterUp ==
  /\ RootPath \notin ListedPaths
  /\ \A i \in 1..Len(listWorktrees(World)) :
       listWorktrees(World)[i].isBare
       => listWorktrees(World)[i].path \notin ListedPaths
  /\ (last.op = "up" /\ last.result = "ok")
     => Cardinality({i \in 1..Len(Listed) : Listed[i].branch = last.branch}) = 1

C10_Witness ==
  /\ last.op = "up" /\ last.result = "ok"
  /\ Len(Listed) = 2
  /\ \E i \in 1..2 : /\ Listed[i].branch = last.branch
                      /\ Listed[i].worktreePath = WorktreePath(last.branch)

\* C11: no branch name is reported for more than one live worktree; an up(b)
\* for a branch b that exists already (with a live worktree or without one)
\* raises the error of git worktree add and changes nothing: the branches, their
\* heads, the worktrees, their session logs and the containers are as before.
C11_UpOnExistingBranchFails ==
  /\ [](\A b \in Branches :
          Cardinality({i \in 1..Len(Listed) : Listed[i].branch = b}) <= 1)
  /\ [][\A b \in Branches :
          (last'.op = "up" /\ last'.branch = b /\ b \in branches)
          => /\ last'.result = "error"
             /\ last'.error = ErrWorktreeAdd
             /\ last'.steps = << <<"createWorktree", FALSE>> >>
             /\ branches' = branches
             /\ head' = head
             /\ wt' = wt
             /\ sessions' = sessions
             /\ container' = container]_vars

\* An up(b) refused while b had a live sandbox with a session in its log.
C11_Witness ==
  /\ last.op = "up" /\ last.error = ErrWorktreeAdd
  /\ wt[last.branch].live /\ sessions[last.branch] # <<>>

\* C12: exec(b), merge(b) and down(b) for a branch b that has no live worktree
\* raise 'No worktree found for branch' right after the lookup and change
\* nothing: no container is started or stopped, no rebase or fast-forward is
\* attempted, no worktree, branch or session entry is added or removed.
C12_NotFoundChangesNothing ==
  [][\A b \in Branches :
       (last'.op \in {"exec", "merge", "down"} /\ last'.branch = b /\ ~wt[b].live)
       => /\ last'.result = "error"
          /\ last'.error = ErrNotFound
          /\ last'.steps = << <<"listWorktrees", TRUE>> >>
          /\ branches' = branches
          /\ head' = head
          /\ wt' = wt
          /\ sessions' = sessions
          /\ container' = container]_vars

\* A call refused for a branch without a worktree while the other sandbox is
\* live with its container running.
C12_Witness ==
  /\ last.op \in {"exec", "merge", "down"} /\ last.error = ErrNotFound
  /\ last.branch \in Branches /\ ~wt[last.branch].live
  /\ \E k \in Branches : wt[k].live /\ wt[k].rebase = "none" /\ k \in container

\* C13: every exec(b, task, sessionId?) that runs the task appends exactly one
\* entry to the session log of sandbox b, and that entry carries the session id
\* the call returns (the caller's id when one was given, a generated one
\* otherwise).
C13_ExecAppendsSession ==
  [][\A b \in Branches :
       (last'.op = "exec" /\ last'.branch = b /\ last'.result = "ok")
       => /\ Len(sessions'[b]) = Len(sessions[b]) + 1
          /\ SubSeq(sessions'[b], 1, Len(sessions[b])) = sessions[b]
          /\ sessions'[b][Len(sessions'[b])].sessionId = last'.sessionId]_vars

\* C14: while a sandbox stays live its session log only grows at the end: over
\* every step (up, exec, a conflicted merge, down with containerOnly, a
\* resolution in the worktree) the log before is a prefix of the log after;
\* and every entry of list() carries the log of its worktree.
C14_SessionLogAppendOnly ==
  /\ [](\A i \in 1..Len(Listed) :
          Listed[i].sessions = sessions[KeyOfPath(World, Listed[i].worktreePath)])
  /\ [][\A k \in Branches :
          (wt[k].live /\ wt'[k].live) => IsPrefix(sessions[k], sessions'[k])]_vars

\* A log of two entries, still there after a conflicted merge.
C14_Witness ==
  /\ last.op = "merge" /\ last.result = "conflict"
  /\ Len(sessions["b1"]) = 2
  /\ \E i \in 1..Len(Listed) : Len(Listed[i].sessions) = 2

OrphansOf(bs, w, cur) == {b \in bs : ~w[b].live /\ b # cur}

\* C15: cleanup(dryRun=true) deletes nothing, however many branches are
\* orphaned: the local branches, their heads and the worktrees are the same
\* after the call, deletedBranches is empty, and orphanedBranches is the set of
\* sandbox branches with no live worktree that are not checked out.
C15_DryRunDeletesNothing ==
  [][(last'.op = "cleanup" /\ last'.arg = TRUE)
       => /\ branches' = branches
          /\ head' = head
          /\ wt' = wt
          /\ current' = current
          /\ last'.out.deletedBranches = <<>>
          /\ Range(last'.out.orphanedBranches) = OrphansOf(branches, wt, current)
          /\ Len(last'.out.orphanedBranches)
               = Cardinality(OrphansOf(branches, wt, current))]_vars

\* A dry run that found two orphaned branches next to a live sandbox.
C15_Witness ==
  /\ last.op = "cleanup" /\ last.arg = TRUE
  /\ Len(last.out.orphanedBranches) = 2
  /\ Range(last.out.orphanedBranches) \subseteq branches
  /\ \E k \in Branches : wt[k].live

\* C16: cleanup(dryRun=false) deletes exactly the sandbox branches that have no
\* live worktree and are not checked out in the main working tree; every
\* other branch, every worktree, container and session log is untouched.  In
\* every cleanup the branch of a live worktree and the checked-out branch are
\* not in orphanedBranches, and deletedBranches is a subset of
\* orphanedBranches.
C16_CleanupDeletesExactlyOrphans ==
  [][last'.op = "cleanup"
       => /\ Range(last'.out.deletedBranches) \subseteq Range(last'.out.orphanedBranches)
          /\ current \notin Range(last'.out.orphanedBranches)
          /\ \A b \in Branches :
               wt[b].live => b \notin Range(last'.out.orphanedBranches)
          /\ last'.arg = FALSE
             => /\ Range(last'.out.orphanedBranches) = OrphansOf(branches, wt, current)
                /\ Range(last'.out.deletedBranches) = OrphansOf(branches, wt, current)
                /\ branches' = branches \ OrphansOf(branches, wt, current)
                /\ \A b \in branches' \cup {Main} : head'[b] = head[b]
                /\ wt' = wt
                /\ current' = current
                /\ container' = container
                /\ sessions' = sessions]_vars

\* A cleanup that deleted an orphaned branch while another sandbox branch was
\* checked out in the main working tree and a third had a live worktree.
C16_Witness ==
  /\ last.op = "cleanup" /\ last.arg = FALSE
  /\ Len(last.out.deletedBranches) = 1
  /\ current \in branches
  /\ \E k \in branches : wt[k].live

SuppliedOrEmpty(o) == IF o = None THEN <<>> ELSE ValueOf(o)

\* C17: an issue is created with empty linkedCommits and linkedTasks and with
\* the labels given at creation; every updateIssue leaves linkedCommits
\* (linkedTasks) as it was followed by the list it supplies for the field, and
\* labels as the list it supplies (unchanged when it supplies none); nothing
\* else changes the three fields.  So linkedCommits is the concatenation, in
\* call order, of the lists supplied since the creation, and labels is the last
\* list supplied.
C17_LinksAppendLabelsReplace ==
  [][/\ \A i \in 1..Len(issues) :
          LET old == issues[i]
              new == GetKey(issues', old.id)
              u == last'.arg.updates
          IN /\ HasKey(issues', old.id)
             /\ IF last'.op = "updateIssue" /\ last'.arg.id = old.id
                THEN /\ last'.result = "ok"
                     /\ new.linkedCommits
                          = old.linkedCommits \o SuppliedOrEmpty(u.linkedCommits)
                     /\ new.linkedTasks
                          = old.linkedTasks \o SuppliedOrEmpty(u.linkedTasks)
                     /\ new.labels = IF u.labels = None THEN old.labels
                                     ELSE ValueOf(u.labels)
                ELSE IF last'.op = "createIssue" /\ last'.out.id = old.id
                THEN TRUE
                ELSE /\ new.linkedCommits = old.linkedCommits
                     /\ new.linkedTasks = old.linkedTasks
                     /\ new.labels = old.labels
     /\ last'.op = "createIssue"
        => LET new == GetKey(issues', last'.out.id)
           IN /\ new.linkedCommits = <<>>
              /\ new.linkedTasks = <<>>
              /\ new.labels = SuppliedOrEmpty(last'.arg.labels)]_vars

\* A second update that appended to linkedCommits and replaced the labels
\* given at creation.
C17_Witness ==
  /\ last.op = "updateIssue" /\ last.result = "ok"
  /\ last.arg.updates.linkedCommits = Some(<<"c1">>)
  /\ last.arg.updates.labels = Some(<<"y">>)
  /\ GetKey(issues, last.arg.id).linkedCommits = <<"c2", "c1">>
  /\ GetKey(issues, last.arg.id).labels = <<"y">>

\* C18: listIssues returns the issues that match the filter, each once, the
\* high ones before the medium ones before the low ones and, within one
\* priority, in the order of their creation.
C18_ListOrderedByPriorityThenCreation ==
  last.op = "listIssues"
  => /\ {last.out[i].id : i \in 1..Len(last.out)}
          = {issues[i].id : i \in {j \in 1..Len(issues) :
                                     MatchesFilter(issues[j], last.arg)}}
     /\ \A i, j \in 1..Len(last.out) :
          i < j => \/ priorityOrder(last.out[i].priority)
                        < priorityOrder(last.out[j].priority)
                   \/ /\ last.out[i].priority = last.out[j].priority
                      /\ last.out[i].createdSeq < last.out[j].createdSeq

DeclaredDependencies(taskId) ==
  LET deps == GetKey(tasks, taskId).dependencies
  IN {deps[i] : i \in 1..Len(deps)}

\* C19 as worded: getUnmetDependencies(t) of a task t of the ledger is empty
\* exactly when every dependency that t declares has status 'done'.
C19_EmptyIffEveryDeclaredDone ==
  (last.op = "getUnmetDependencies" /\ HasKey(tasks, last.arg))
  => (last.out = <<>>
      <=> \A depId \in DeclaredDependencies(last.arg) :
            HasKey(tasks, depId) /\ GetKey(tasks, depId).status = "done")

\* C19, amended: getUnmetDependencies(t) of a task t of the ledger is empty
\* exactly when every dependency that t declares and that is the id of a task
\* of the ledger has status 'done'; it returns those of them that have not,
\* and the declared ids of no task are dropped.
C19_EmptyIffEveryResolvedDone ==
  (last.op = "getUnmetDependencies" /\ HasKey(tasks, last.arg))
  => /\ last.out = <<>>
          <=> \A depId \in DeclaredDependencies(last.arg) :
                HasKey(tasks, depId) => GetKey(tasks, depId).status = "done"
     /\ {last.out[i].id : i \in 1..Len(last.out)}
          = {depId \in DeclaredDependencies(last.arg) :
               HasKey(tasks, depId) /\ GetKey(tasks, depId).status # "done"}

\* A task with two dependencies, one done and one failed, asked for its unmet
\* dependencies.
C19_Witness ==
  /\ last.op = "getUnmetDependencies"
  /\ HasKey(tasks, last.arg)
  /\ GetKey(tasks, last.arg).dependencies = <<"t1", "t2">>
  /\ HasKey(tasks, "t1") /\ GetKey(tasks, "t1").status = "done"
  /\ HasKey(tasks, "t2") /\ GetKey(tasks, "t2").status = "failed"
  /\ Len(last.out) = 1

OutIds(out) == {out[i].id : i \in 1..Len(out)}

\* The dependencies of a task that are tasks of the ledger and are not done.
UnmetIds(store, task) ==
  {task.dependencies[i] : i \in {j \in 1..Len(task.dependencies) :
      /\ HasKey(store, task.dependencies[j])
      /\ GetKey(store, task.dependencies[j]).status # "done"}}

IsReadyListing(call) ==
  /\ call.op = "task_list"
  /\ call.arg.ready
  /\ call.arg.status = None

\* C20: a ready listing holds, each once and as stored, exactly the tasks that
\* are neither done nor cancelled and have no unmet dependency; and once an
\* update has marked done the last unmet dependency of a task that is neither
\* done nor cancelled, the task is in the ready listing of the ledger as the
\* update left it, and in the listing that comes next.
C20_ReadyListing ==
  /\ [](IsReadyListing(last)
         => /\ OutIds(last.out)
                 = {tasks[i].id : i \in {j \in 1..Len(tasks) :
                      /\ tasks[j].status \notin {"done", "cancelled"}
                      /\ UnmetIds(tasks, tasks[j]) = {}}}
            /\ \A i \in 1..Len(last.out) :
                 /\ last.out[i] = GetKey(tasks, last.out[i].id)
                 /\ \A j \in 1..Len(last.out) : last.out[i].id = last.out[j].id => i = j)
  /\ [][/\ (/\ last'.op = "updateTask" /\ last'.result = "ok"
             /\ last'.arg.updates.status = Some("done"))
            => \A i \in 1..Len(tasks) :
                 (/\ UnmetIds(tasks, tasks[i]) = {last'.arg.id}
                  /\ GetKey(tasks', tasks[i].id).status \notin {"done", "cancelled"})
                 => tasks[i].id
                      \in OutIds(taskList(tasks', [NoTaskFilter EXCEPT !.ready = TRUE]))
        /\ (/\ IsReadyListing(last')
            /\ last.op = "updateTask" /\ last.result = "ok"
            /\ last.arg.updates.status = Some("done"))
            => \A i \in 1..Len(tasks) :
                 (/\ \E k \in 1..Len(tasks[i].dependencies) :
                        tasks[i].dependencies[k] = last.arg.id
                  /\ UnmetIds(tasks, tasks[i]) = {}
                  /\ tasks[i].status \notin {"done", "cancelled"})
                 => tasks[i].id \in OutIds(last'.out)]_vars

\* A ready listing of a ledger where a failed task that depends on two done
\* tasks is the only ready one.
C20_Witness ==
  /\ IsReadyListing(last)
  /\ Len(tasks) = 3
  /\ GetKey(tasks, "t3").status = "failed"
  /\ GetKey(tasks, "t3").dependencies = <<"t1", "t2">>
  /\ GetKey(tasks, "t1").status = "done"
  /\ GetKey(tasks, "t2").status = "done"
  /\ OutIds(last.out) = {"t3"}

\* C30: getUnmetDependencies of an id that is the id of no task is the empty
\* list; for a task whose dependencies that are not done are all ids of no
\* task it is the empty list too, and a ready listing holds every such task
\* that is neither done nor cancelled.
C30_DanglingDependenciesDropped ==
  /\ last.op = "getUnmetDependencies"
     => /\ ~HasKey(tasks, last.arg) => last.out = <<>>
        /\ (/\ HasKey(tasks, last.arg)
            /\ \A depId \in DeclaredDependencies(last.arg) :
                 ~HasKey(tasks, depId) \/ GetKey(tasks, depId).status = "done")
           => last.out = <<>>
  /\ IsReadyListing(last)
     => \A i \in 1..Len(tasks) :
          (/\ tasks[i].status \notin {"done", "cancelled"}
           /\ \A depId \in DeclaredDependencies(tasks[i].id) :
                ~HasKey(tasks, depId) \/ GetKey(tasks, depId).status = "done")
          => tasks[i].id \in OutIds(last.out)

\* A ready listing that holds a task whose only dependency is the id of no
\* task.
C30_Witness ==
  /\ IsReadyListing(last)
  /\ \E i \in 1..Len(last.out) : last.out[i].dependencies = <<MissingId>>
  /\ ~HasKey(tasks, MissingId)

\* C21: a ledger call that names a record that does not exist ends in an
\* error: updateOrchestration, updateTask and updateIssue of an unknown id
\* fail with '... not found' and leave both documents as they were, not even
\* rewritten; task_get and issue_get of an unknown id give an error result;
\* createTask under an orchestrationId of no orchestration is rejected.
C21_MissingReferenceIsAnError ==
  [][/\ \A op \in {"updateOrchestration", "updateTask", "updateIssue"} :
          LET store == IF op = "updateOrchestration" THEN read("store", orchestrations)
                       ELSE IF op = "updateTask" THEN read("store", tasks)
                       ELSE read("issues", issues)
          IN (last'.op = op /\ ~HasKey(store, last'.arg.id))
               => /\ last'.result = "error"
                  /\ last'.error \in {"Orchestration not found", "Task not found",
                                       "Issue not found"}
                  /\ UNCHANGED <<orchestrations, tasks, issues, unparsable>>
     /\ (last'.op = "task_get" /\ ~HasKey(read("store", tasks), last'.arg))
          => last'.result = "error"
     /\ (last'.op = "issue_get" /\ ~HasKey(read("issues", issues), last'.arg))
          => last'.result = "error"
     /\ (last'.op = "createTask"
          /\ ~HasKey(read("store", orchestrations), last'.arg.orchestrationId))
          => last'.result = "error"]_vars

\* C22: while the documents are readable, no call removes or replaces a
\* record: every orchestration, task and issue stays under its id with the
\* createdAt it was created with, and a create that carries an id already in
\* use leaves the record of that id as it was.
C22_RecordsCreatedOnce ==
  [][LET Kept(store, after) ==
           \A id \in KeysOf(store) :
             /\ HasKey(after, id)
             /\ GetKey(after, id).createdAt = GetKey(store, id).createdAt
             /\ last'.op \in {"createOrchestration", "createTask", "createIssue"}
                  => GetKey(after, id) = GetKey(store, id)
     IN unparsable = {}
          => /\ Kept(orchestrations, orchestrations')
             /\ Kept(tasks, tasks')
             /\ Kept(issues, issues')]_vars

\* C23: a create stamps createdAt and updatedAt of the new record with the
\* time of the call; a successful updateOrchestration, updateTask or
\* updateIssue, with or without a field to change, sets updatedAt to the time
\* of the call and keeps createdAt; in every state updatedAt >= createdAt for
\* every record.
C23_TimestampsStamped ==
  /\ [](\A i \in 1..Len(orchestrations) :
          orchestrations[i].updatedAt >= orchestrations[i].createdAt)
  /\ [](\A i \in 1..Len(tasks) :
          tasks[i].updatedAt >= tasks[i].createdAt)
  /\ [](\A i \in 1..Len(issues) :
          issues[i].updatedAt >= issues[i].createdAt)
  /\ [][LET Stamped(op, after) ==
             last'.op = op
               => /\ last'.out.createdAt = clock /\ last'.out.updatedAt = clock
                  /\ GetKey(after, last'.out.id) = last'.out
           Restamped(op, store, after) ==
             (last'.op = op /\ last'.result = "ok")
               => /\ GetKey(after, last'.arg.id).updatedAt = clock
                  /\ GetKey(after, last'.arg.id).createdAt
                       = GetKey(store, last'.arg.id).createdAt
                  /\ ValueOf(last'.out) = GetKey(after, last'.arg.id)
       IN /\ Stamped("createOrchestration", orchestrations')
          /\ Stamped("createTask", tasks')
          /\ Stamped("createIssue", issues')
          /\ Restamped("updateOrchestration", read("store", orchestrations),
                       orchestrations')
          /\ Restamped("updateTask", read("store", tasks), tasks')
          /\ Restamped("updateIssue", read("issues", issues), issues')]_vars

C23_Witness ==
  /\ last.op = "updateOrchestration"
  /\ last.result = "ok"
  /\ last.arg.updates.status = None
  /\ ValueOf(last.out).updatedAt > ValueOf(last.out).createdAt
  /\ \E i \in 1..Len(tasks) : tasks[i].updatedAt > tasks[i].createdAt
  /\ \E i \in 1..Len(issues) : issues[i].updatedAt > issues[i].createdAt

\* C26: a document that is missing or cannot be parsed is read as the empty
\* store: task_get and issue_get find nothing, getUnmetDependencies and
\* listIssues return the empty list, and a create writes a document that
\* holds the new record and nothing else.
C26_UnreadableIsEmpty ==
  [][/\ "store" \in unparsable
          => /\ last'.op = "task_get" => last'.result = "error" /\ last'.out = None
             /\ last'.op = "getUnmetDependencies" => last'.out = <<>>
             /\ last'.op = "createOrchestration"
                  => /\ orchestrations' = <<last'.out>> /\ tasks' = <<>>
                     /\ "store" \notin unparsable'
             /\ last'.op = "createTask"
                  => /\ tasks' = <<last'.out>> /\ orchestrations' = <<>>
                     /\ "store" \notin unparsable'
     /\ "issues" \in unparsable
          => /\ last'.op = "issue_get" => last'.result = "error" /\ last'.out = None
             /\ last'.op = "listIssues" => last'.out = <<>>
             /\ last'.op = "createIssue"
                  => issues' = <<last'.out>> /\ "issues" \notin unparsable']_vars

C26_Witness ==
  /\ unparsable = {"store", "issues"}
  /\ last.op = "task_get"
  /\ last.arg \in KeysOf(tasks)
  /\ last.result = "error"
  /\ orchestrations # <<>>
  /\ issues # <<>>

\* C24: a call that writes puts back the document it read with its own
\* change, whatever has been written since.  When nothing was written between
\* its read and its write, as with one sequential caller, its change is in
\* the document and every other task is as it was, so nothing is lost.  With
\* two callers there is a run in which both calls succeed and the document
\* holds the change of one only (the witness).
C24_SequentialCallerLosesNothing ==
  [][\A c \in Callers :
       (inflight[c].phase = "read" /\ inflight'[c].phase = "ok")
         => LET id == inflight[c].id
            IN /\ HasKey(tasks', id)
               /\ inflight[c].op = "updateTask" => GetKey(tasks', id).status = "done"
               /\ \A other \in KeysOf(inflight[c].tasks) \ {id} :
                    GetKey(tasks', other) = GetKey(inflight[c].tasks, other)
               /\ (\A d \in Callers \ {c} : inflight[d] = Idle)
                    => inflight[c].tasks = read("store", tasks)
               /\ inflight[c].tasks = read("store", tasks)
                    => \A other \in KeysOf(tasks) \ {id} :
                         /\ HasKey(tasks', other)
                         /\ GetKey(tasks', other) = GetKey(tasks, other)]_vars

C24_Witness ==
  /\ inflight["c1"] = [Idle EXCEPT !.phase = "ok", !.op = "updateTask", !.id = "t1"]
  /\ inflight["c2"] = [Idle EXCEPT !.phase = "ok", !.op = "updateTask", !.id = "t2"]
  /\ HasKey(tasks, "t1") /\ GetKey(tasks, "t1").status = "pending"
  /\ HasKey(tasks, "t2") /\ GetKey(tasks, "t2").status = "done"

\* C25: an up, exec or down on a branch leaves the worktree, the branch, the
\* environment and the session log of every other branch as they were, and
\* goes as it would with no other sandbox there: an up with no fault, on a
\* branch that does not exist and has no worktree, creates the sandbox
\* whatever other sandboxes exist.
C25_SandboxesIndependent ==
  [][\A b \in Names :
       (last'.op \in {"up", "exec", "down"} /\ last'.branch = b)
         => /\ \A k \in Names \ {b} :
                 /\ wt'[k] = wt[k]
                 /\ sessions'[k] = sessions[k]
                 /\ head'[k] = head[k]
                 /\ (k \in branches') = (k \in branches)
                 /\ (k \in container') = (k \in container)
            /\ (last'.op = "up" /\ last'.faults = {}
                  /\ b \notin branches /\ ~wt[b].live)
                 => /\ last'.result = "ok"
                    /\ wt'[b].live
                    /\ b \in branches']_vars

C32_ExecResumesStopped ==
  [][\A b \in Branches :
       (/\ last'.op = "exec" /\ last'.branch = b /\ last'.faults = {}
        /\ wt[b].live /\ wt[b].rebase = "none")
       => /\ last'.result = "ok"
          /\ SubSeq(last'.steps, 1, 3)
               = << <<"listWorktrees", TRUE>>, <<"containerUp", TRUE>>,
                    <<"containerExec", TRUE>> >>
          /\ wt'[b].live /\ wt'[b].rebase = "none" /\ b \in branches'
          /\ container' = container \cup {b}
          /\ Len(sessions'[b]) >= Len(sessions[b])
          /\ SubSeq(sessions'[b], 1, Len(sessions[b])) = sessions[b]]_vars

\* An exec that succeeded on a sandbox whose environment was not running when
\* it was called and whose log already held the session of up.
C32_Witness ==
  /\ last.op = "exec" /\ last.result = "ok" /\ ~last.running
  /\ last.branch \in Branches
  /\ last.branch \in container
  /\ wt[last.branch].live
  /\ Len(sessions[last.branch]) >= 1

\* C33: a failed up leaves no partial sandbox, whichever step fails. When an
\* up call raises after its createWorktree step succeeded, because rewriting
\* the environment descriptor, starting the environment or a rollback step
\* failed (the environment never started), the live worktrees and the local
\* branches are the ones there were before the call.
C33_FailedUpLeavesNothing ==
  [][(/\ last'.op = "up" /\ last'.result = "error"
      /\ last'.steps[1] = <<"createWorktree", TRUE>>
      /\ <<"containerUp", TRUE>> \notin {last'.steps[i] : i \in 1..Len(last'.steps)})
     => /\ branches' = branches
        /\ {k \in Names : wt'[k].live} = {k \in Names : wt[k].live}]_vars

\* C34: merge never destroys remediation work. A merge call made while the
\* rebase of sandbox k from an earlier conflicted merge is in progress (stopped
\* at the conflict, or resolved and staged) reports the conflict again or
\* fails, and leaves the worktree of k as it was: the rebase is still in
\* progress and the resolution staged in it is kept.
C34_MergeKeepsRebaseInProgress ==
  [][\A k \in Branches :
       (/\ last'.op = "merge" /\ last'.branch \in {k, Detached}
        /\ wt[k].live /\ wt[k].rebase # "none")
       => /\ last'.result \in {"conflict", "error"}
          /\ wt'[k] = wt[k]]_vars

\* C35: an exec that fails keeps the sandbox. When exec(b) finds the worktree
\* of b and the environment cannot be started or the command cannot be
\* launched, the call raises an error, the session logs are unchanged, and the
\* worktrees, the branches and their commits are as before the call.
C35_FailedExecKeepsSandbox ==
  [][\A b \in Branches :
       (/\ last'.op = "exec" /\ last'.branch = b /\ last'.faults # {}
        /\ wt[b].live /\ wt[b].rebase = "none")
       => /\ last'.result = "error" /\ last'.error # ErrNotFound
          /\ sessions' = sessions
          /\ wt' = wt /\ branches' = branches /\ head' = head]_vars

\* An exec on a stopped sandbox with one recorded session failed to start the
\* environment: the worktree and branch are still there.
C35_Witness ==
  /\ last.op = "exec" /\ last.result = "error" /\ ~last.running
  /\ last.steps[Len(last.steps)] = <<"containerUp", FALSE>>
  /\ last.branch \in Branches
  /\ wt[last.branch].live /\ last.branch \in branches
  /\ Len(sessions[last.branch]) = 1

\* C39: a field-level update touches only what it names. A successful
\* updateTask(id, u) keeps the keys of the task document and their order,
\* leaves every other task as it was, changes on task id only fields that u
\* holds (status, branch) and updatedAt, and leaves the orchestrations and the
\* issue document as they were; a successful updateIssue(id, u) does the same
\* on the issue document and leaves the tasks and orchestrations as they were;
\* an update that fails changes no document.
C39_UpdateTouchesOnlyNamedFields ==
  [][LET Touched(u) == {f \in DOMAIN u : u[f] # None} \cup {"updatedAt"}
         Framed(old, new, id, u) ==
           /\ Len(new) = Len(old)
           /\ \A i \in 1..Len(old) :
                /\ new[i].id = old[i].id
                /\ DOMAIN new[i] = DOMAIN old[i]
                /\ IF old[i].id = id
                   THEN \A f \in DOMAIN old[i] \ Touched(u) : new[i][f] = old[i][f]
                   ELSE new[i] = old[i]
     IN /\ (last'.op = "updateTask" /\ last'.result = "ok")
           => /\ Framed(tasks, tasks', last'.arg.id, last'.arg.updates)
              /\ orchestrations' = orchestrations
              /\ issues' = issues
        /\ (last'.op = "updateIssue" /\ last'.result = "ok")
           => /\ Framed(issues, issues', last'.arg.id, last'.arg.updates)
              /\ tasks' = tasks
              /\ orchestrations' = orchestrations
        /\ (last'.op \in {"updateTask", "updateIssue"} /\ last'.result = "error")
           => /\ tasks' = tasks /\ issues' = issues
              /\ orchestrations' = orchestrations]_vars

\* The branch of task t2 was set, later than its creation, in a document that
\* also holds t1, with an orchestration and two issues on record: t2 keeps its
\* status, dependencies and creation time.
C39_Witness ==
  /\ last.op = "updateTask" /\ last.result = "ok" /\ last.arg.id = "t2"
  /\ last.arg.updates = [status |-> None, branch |-> Some("b1")]
  /\ HasKey(tasks, "t1") /\ HasKey(tasks, "t2")
  /\ GetKey(tasks, "t2").branch = Some("b1")
  /\ GetKey(tasks, "t2").status = "pending"
  /\ GetKey(tasks, "t2").dependencies = <<"t1">>
  /\ GetKey(tasks, "t2").updatedAt > GetKey(tasks, "t2").createdAt
  /\ Len(orchestrations) = 1 /\ Len(issues) = 2

\* C38: acyclicity is not enforced. createTask stores the dependencies it is
\* given, and every task on a cycle of the dependency graph has a non-empty
\* unmet-dependency set and is in no ready listing, tasks being marked done
\* only when ready.
C38_CycleTasksNeverReady ==
  LET Deps(id) == {d \in KeysOf(tasks) :
                     \E i \in 1..Len(GetKey(tasks, id).dependencies) :
                       GetKey(tasks, id).dependencies[i] = d}
      RECURSIVE Reach(_, _)
      Reach(S, n) == IF n = 0 THEN S
                     ELSE Reach(S \cup UNION {Deps(y) : y \in S}, n - 1)
      OnCycle(id) == id \in Reach(Deps(id), Len(tasks))
      ready == taskList(tasks, [NoTaskFilter EXCEPT !.ready = TRUE])
  IN /\ last.op = "createTask"
        => /\ last.result = "ok"
           /\ GetKey(tasks, ValueOf(last.arg.id)).dependencies
                = IF last.arg.dependencies = None THEN <<>>
                  ELSE ValueOf(last.arg.dependencies)
     /\ \A id \in KeysOf(tasks) :
          OnCycle(id) => /\ getUnmetDependencies(tasks, id) # <<>>
                         /\ id \notin OutIds(ready)

\* C38 as amended: createTask stores the dependencies it is given, and every
\* task on a cycle none of whose tasks is done has a non-empty unmet-dependency
\* set, is in no ready listing, and is not done after the next step.
C38_OpenCycleTasksNeverReady ==
  /\ [](LET Open == {id \in KeysOf(tasks) : GetKey(tasks, id).status # "done"}
            Deps(id) == {d \in Open :
                           \E i \in 1..Len(GetKey(tasks, id).dependencies) :
                             GetKey(tasks, id).dependencies[i] = d}
            RECURSIVE Reach(_, _)
            Reach(S, n) == IF n = 0 THEN S
                           ELSE Reach(S \cup UNION {Deps(y) : y \in S}, n - 1)
            ready == taskList(tasks, [NoTaskFilter EXCEPT !.ready = TRUE])
        IN /\ last.op = "createTask"
              => /\ last.result = "ok"
                 /\ GetKey(tasks, ValueOf(last.arg.id)).dependencies
                      = IF last.arg.dependencies = None THEN <<>>
                        ELSE ValueOf(last.arg.dependencies)
           /\ \A id \in Open :
                id \in Reach(Deps(id), Len(tasks))
                => /\ getUnmetDependencies(tasks, id) # <<>>
                   /\ id \notin OutIds(ready))
  /\ [][LET Open == {id \in KeysOf(tasks) : GetKey(tasks, id).status # "done"}
            Deps(id) == {d \in Open :
                           \E i \in 1..Len(GetKey(tasks, id).dependencies) :
                             GetKey(tasks, id).dependencies[i] = d}
            RECURSIVE Reach(_, _)
            Reach(S, n) == IF n = 0 THEN S
                           ELSE Reach(S \cup UNION {Deps(y) : y \in S}, n - 1)
        IN \A id \in Open :
             id \in Reach(Deps(id), Len(tasks))
             => GetKey(tasks', id).status # "done"]_vars

\* A ready listing of a ledger where t1 and t2 depend on each other, neither
\* is done, and t3, which depends on itself, is not done either: the listing
\* is empty.
C38_Witness ==
  /\ IsReadyListing(last) /\ last.arg.orchestrationId = None
  /\ Len(tasks) = 3
  /\ GetKey(tasks, "t1").dependencies = <<"t2">>
  /\ GetKey(tasks, "t2").dependencies = <<"t1">>
  /\ GetKey(tasks, "t3").dependencies = <<"t3">>
  /\ \A i \in 1..3 : tasks[i].status = "pending"
  /\ last.out = <<>>

\* C37: progress on an acyclic plan. In a ledger whose dependencies are
\* acyclic and all name tasks of the ledger: while a task is not done the ready
\* listing is not empty, and every task in the ready listing has all its
\* dependencies done; and with the loop that marks ready tasks done running,
\* such a ledger leads to one where every task is done (unless a task created
\* meanwhile makes the plan cyclic or dangling).
C37_AcyclicPlanProgress ==
  LET Deps(id) == {GetKey(tasks, id).dependencies[i] :
                     i \in 1..Len(GetKey(tasks, id).dependencies)}
      RECURSIVE Reach(_, _)
      Reach(S, n) == IF n = 0 THEN S
                     ELSE Reach(S \cup UNION {Deps(y) : y \in S \cap KeysOf(tasks)}, n - 1)
      Plan == \A id \in KeysOf(tasks) :
                /\ Deps(id) \subseteq KeysOf(tasks)
                /\ id \notin Reach(Deps(id), Len(tasks))
      AllDone == \A i \in 1..Len(tasks) : tasks[i].status = "done"
      ready == taskList(tasks, [NoTaskFilter EXCEPT !.ready = TRUE])
  IN /\ [](Plan => /\ ~AllDone => ready # <<>>
                   /\ \A i \in 1..Len(ready) :
                        \A d \in Deps(ready[i].id) : GetKey(tasks, d).status = "done")
     /\ Plan ~> (AllDone \/ ~Plan)
     /\ (Plan /\ Len(tasks) = 3) ~> (AllDone /\ Len(tasks) = 3)

\* The loop has just marked done the last task of the plan t1, t2 after t1,
\* t3 after t1 and t2.
C37_Witness ==
  /\ last.op = "updateTask" /\ last.result = "ok" /\ last.arg.id = "t3"
  /\ Len(tasks) = 3
  /\ GetKey(tasks, "t1").dependencies = <<>>
  /\ GetKey(tasks, "t2").dependencies = <<"t1">>
  /\ GetKey(tasks, "t3").dependencies = <<"t1", "t2">>
  /\ \A i \in 1..3 : tasks[i].status = "done"

\* C36: concurrent merges of two sandboxes with non-overlapping changes. Over
\* every step of every interleaving: the target branch only grows (its head
\* before is a prefix of its head after); a sandbox is torn down only when the
\* target already holds its commits; a merge that returns success has removed
\* its worktree and branch and the target holds the sandbox's commits; no merge
\* reports a conflict; and a merge that raises leaves its worktree and branch
\* as they were, and the same merge made again then, alone, succeeds.
C36_ConcurrentMergesLoseNothing ==
  [][/\ IsPrefix(head[Main], head'[Main])
     /\ \A b \in DuoBranches :
          /\ (wt[b].live /\ ~wt'[b].live) => IsPrefix(head[b], head[Main])
          /\ (b \in branches /\ b \notin branches') => IsPrefix(head[b], head[Main])
          /\ (last'.op = "merge" /\ last'.branch = b /\ last'.result = "ok")
             => /\ ~wt'[b].live /\ b \notin branches'
                /\ IsPrefix(head[b], head'[Main])
          /\ (last'.op = "merge" /\ last'.branch = b) => last'.result # "conflict"
          /\ (last'.op = "merge" /\ last'.branch = b /\ last'.result = "error"
              /\ last'.error # ErrNotFound)
             => /\ wt'[b] = wt[b] /\ wt[b].live
                /\ b \in branches' /\ head'[b] = head[b]
                /\ sandboxMergeCoreOn(
                     [branches |-> branches', head |-> head', wt |-> wt',
                      container |-> container', sessions |-> sessions',
                      current |-> current'], b, {}).last.result = "ok"]_vars

\* The fast-forward of one merge failed because the other merge moved the
\* target after this one's rebase: the sandbox is still there, rebased, and the
\* target holds the other sandbox's commit.
C36_Witness ==
  /\ last.op = "merge" /\ last.result = "error" /\ last.error = ErrFastForward
  /\ last.branch = "b2"
  /\ wt["b2"].live /\ "b2" \in branches
  /\ <<"b1", "f">> \in {head[Main][i] : i \in 1..Len(head[Main])}
  /\ <<"b2", "g">> \notin {head[Main][i] : i \in 1..Len(head[Main])}
  /\ <<"b2", "g">> \in {head["b2"][i] : i \in 1..Len(head["b2"])}

====
